---------------------------- MODULE Spec2Model ----------------------------
(***************************************************************************)
(* State-machine model of the WiFi_Promiscuous host programs:              *)
(*   host/aggregator.py           probe readers, GPS readers, dispatch     *)
(*   host/wifi_capture_service.py capture threads, db writer               *)
(*   host/gps_services.py         gpspipe state file writer                *)
(* Optional values (Python None / a value) are sequences of length <= 1.   *)
(*   host/broker.py               live device tracker                      *)
(*   host/trilateration_service.py side decision per address               *)
(* Time is an integer number of milliseconds.  The tracker and the         *)
(* snapshot writer compare seconds; for them the clock counts seconds.     *)
(***************************************************************************)
EXTENDS Integers, Sequences, FiniteSets, TLC

\* ------------------------------------------------------------------ bounds
NumProbes == 2
QueueMax == 2
MaxLines == 2
MaxTime == 2
MaxFixAge == 1
StatusInterval == 2
CommitInterval == 1
MaxGpsMsgs == 2
MaxClock == 5
MaxReads == 2
NumAddrs == 2

Probes == 1..NumProbes

\* ------------------------------------------------------- optional values
None == <<>>
Some(v) == <<v>>
Val(o) == o[1]
OrElse(o, d) == IF o = None THEN d ELSE o[1]

\* Python truthiness of an optional number: None and 0 are falsy.
Truthy(o) == o # None /\ o[1] # 0

\* Python `a or b` on optional numbers.
PyOr(a, b) == IF Truthy(a) THEN a ELSE b

\* --------------------------------------------------------- probe lines
(* A line of a probe's serial stream, after decode and strip.  fmt is the   *)
(* shape of the text: a JSON object, a comma separated record with at      *)
(* least 7 parts, or anything else.  A field that the line does not give   *)
(* (a missing key, an empty CSV part) is None.  chNaN: the channel is      *)
(* given but is not a number.                                              *)
Line(fmt, node, ch, chNaN, freq, bssid, ssid, rssi, bint) ==
  [fmt |-> fmt, node |-> node, ch |-> ch, chNaN |-> chNaN, freq |-> freq,
   bssid |-> bssid, ssid |-> ssid, rssi |-> rssi, bint |-> bint]

CHANNEL_TO_FREQ ==
  [c \in 1..14 |-> IF c = 14 THEN 2484 ELSE 2407 + 5 * c]

freq_from_channel(ch) ==
  IF ch \in DOMAIN CHANNEL_TO_FREQ THEN CHANNEL_TO_FREQ[ch]
  ELSE IF ch > 0 THEN 2412 + 5 * (ch - 1) ELSE 2412

Rec(node, ch, freq, bssid, ssid, rssi, bint) ==
  [node_id |-> node, channel |-> ch, frequency_mhz |-> freq, bssid |-> bssid,
   ssid |-> ssid, rssi_dbm |-> rssi, beacon_interval_ms |-> bint]

\* ProbeReader._parse_line, the JSON attempt: None when it raises.
parse_line_json(l, node_id) ==
  IF l.fmt # "json" \/ l.chNaN THEN None
  ELSE Some(Rec(OrElse(l.node, node_id),
                OrElse(l.ch, 0),
                IF l.freq # None /\ Val(l.freq) >= 0 THEN Val(l.freq)
                ELSE IF l.freq = None THEN 0
                ELSE freq_from_channel(OrElse(l.ch, 0)),
                OrElse(l.bssid, ""),
                OrElse(l.ssid, ""),
                OrElse(l.rssi, 0),
                IF Truthy(l.bint) THEN l.bint ELSE None))

\* ProbeReader._parse_line, the CSV attempt: None when it raises or the
\* line has fewer than 7 parts.
parse_line_csv(l, node_id) ==
  IF l.fmt # "csv" \/ l.chNaN \/ l.ch = None THEN None
  ELSE Some(Rec(OrElse(l.node, node_id),
                Val(l.ch),
                IF l.freq # None THEN Val(l.freq) ELSE freq_from_channel(Val(l.ch)),
                OrElse(l.bssid, ""),
                OrElse(l.ssid, ""),
                OrElse(l.rssi, 0),
                l.bint))

parse_line(l, node_id) ==
  IF parse_line_json(l, node_id) # None THEN parse_line_json(l, node_id)
  ELSE parse_line_csv(l, node_id)


\* ------------------------------------------------------------ variables
VARIABLES
  prog,        \* which program runs: "aggregator" or "capture"
  gpsSource,   \* gps.source of config.yaml: "gpsd" or "serial"; "gpspipe": gps_services.py
  now,         \* time.time(), in ms
  avail,       \* avail[p]: the serial port of probe p can be opened and read
  stream,      \* stream[p]: the lines still to arrive on probe p's port
  pcR,         \* pcR[p]: where reader thread p is: "init","reading","lines","done"
  cause,       \* cause[p]: the path by which reader p left its function
  readErr,     \* readErr[p]: the reader's last read raised (and was printed)
  buf,         \* buf[p]: complete lines of ProbeReader._buf not yet parsed
  drops,       \* history: drops[p] counts the queue.Full that reader p met
  rstop,       \* rstop[p]: ProbeReader._stop_evt
  q,           \* aggregator.py main: q
  stopping,    \* aggregator.py main: stopping (set by handle_sig)
  pcM,         \* the main thread: "run", "joining", "done"
  batch,       \* aggregator.py main: batch
  sink,        \* rows the writer has accepted, in order
  offered,     \* history: the batches passed to writer.write_batch, in order
  qAtStop,     \* history: the queue's content when the stop signal was raised
  run_checks_remaining,
  chan_warnings,  \* history: the [chanmap][warn] lines main printed, in order
  last_status,
  created,     \* history: the last fused row built, with the fix time it was built under
  stop_flag,   \* wifi_capture_service.py: stop_flag
  db_queue,    \* wifi_capture_service.py: db_queue
  pcW,         \* db_writer thread: "run", "done"
  dbPending,   \* rows executed by db_writer and not yet committed
  dbRows,      \* rows committed by db_writer
  dbLast,      \* db_writer: last
  DEV_NUMERIC, DEV_LEFT, DEV_RIGHT, HEARTBEAT,
  capLast,     \* capLast[p]: capture thread p's local `last`
  wifi_devices,      \* content of STATE_WIFI_DEVS, None before the first save
  wifi_directional,  \* content of STATE_WIFI_DIR, None before the first save
  capFile,     \* content of /dev/shm/wifi_capture.json, None when unreadable
  reads,       \* broker.py: turns of the main loop taken so far
  trilaterated,  \* trilateration_service.py: the devices last written
  hist,        \* broker.py main: hist, in insertion order
  devices,     \* broker.py: the devices list last written, None before the first
  args,        \* trilaterate.py: the parsed command line
  db,          \* trilaterate.py: wifi_captures rows with a position, per address
  DEF_MAX_RANGE,  \* trilaterate.py: the module global of that name
  bssid_groups,   \* trilaterate.py main: the groups load_data returned
  pcS,         \* trilaterate.py main: "start", "fitting", "done" or "raised"
  features,    \* trilaterate.py main: features
  skipped,     \* history: the addresses main took the skipped branch for
  usedRanges,  \* history: per least_squares call, the ranges and res.success
  outFile,     \* the GeoJSON file written, None while there is none
  ap_true,     \* the transmitter's position, East/North/Up in metres
  enu_obs,     \* process_bssid: obs, the samples as x, y, z and strength
  fitOut,      \* what fit_bssid returned, None before the call
  lockOwner,   \* lockOwner[L]: the thread inside `with L:`, None when L is free
  pcL,         \* pcL[t]: thread t's position in its sequence of lock operations
  srcUp,       \* the position source can be opened or connected to
  gpsSock,     \* GPSDReader._sock / GPSReader._ser is set
  attempts,    \* history: connect, open and failing read calls made so far
  epoch,       \* history: the number of outages of the position source so far
  connLog,     \* history: per failure line printed, the outage it was printed in
  last_gps_time, \* aggregator_monitored.py: last_gps_time
  last_channel_time, \* aggregator_monitored.py: last_channel_time, as items in insertion order
  gps_warning, \* aggregator_monitored.py: gps_warning
  channel_warnings, \* aggregator_monitored.py: the keys of channel_warnings
  pcMon,       \* monitor: "top" of the loop, "iter" inside the for loop, "dead" after an exception
  monIter,     \* monitor: the loop's `now` and the items iterator (next index, size at creation)
  monLog,      \* history: the warn and resolve calls, in order
  fsNames,     \* the directory: fsNames[name] is the inode of <path> or <path>.tmp, None when absent
  inodes,      \* inodes[i]: the content of inode i, a sequence of chunks
  pcA,         \* pcA[t]: thread t inside atomic_write_json: "idle", "writing", "closed"
  fhA,         \* fhA[t]: thread t's open file: inode, offset, the chunks still to write
  pubCalls,    \* history: pubCalls[t] counts thread t's calls of atomic_write_json
  pubLost,     \* history: the calls whose os.replace raised, as <<t, call>>
  posTable,    \* wifi_ap_position: posTable[a] is the row of address a, None when absent
  posLog,      \* history: posLog[a] is the sequence of parameter sets the UPSERT committed for a
  posNow,      \* utc_iso(), in seconds
  posCalls,    \* history: the number of writes that committed
  wdNow,       \* time.time() of the watchdog, in seconds
  capNodes,    \* wifi_capture.json: capNodes[n] is the ts of node n, None when the node is not listed
  wd_last_seen, \* last_seen of esp_usb_watchdog.py
  last_reset,  \* last_reset of esp_usb_watchdog.py, None for a missing key
  pcWd,         \* the watchdog's position: "scan" or "loop"
  wdTodo,      \* the nodes the for loop of monitor has still to visit
  wdAttempt,   \* history: wdAttempt[n] is the latest call of usb_reset for node n
  wdSkip,      \* history: wdSkip[n] is why the latest visit of node n made no call of usb_reset
  gpsIn,       \* the position messages still to arrive
  fix,         \* GPSDReader._fix / GPSReader._fix
  gpsFile,     \* content of the GPS state file: None when it cannot be read
  state,       \* gps_services.py main: state
  last_good_track,
  lastMsg      \* history: the last position message handled, None before the first

cfgVars == <<prog, gpsSource>>
portVars == <<avail, stream>>
readerVars == <<pcR, cause, readErr, buf, drops>>
mainVars == <<stopping, pcM, batch, sink, offered, qAtStop, run_checks_remaining,
              chan_warnings, last_status>>
capVars == <<stop_flag, db_queue, pcW, dbPending, dbRows, dbLast>>
trackVars == <<capFile, reads, hist, devices, trilaterated>>
snapVars == <<wifi_devices, wifi_directional>>
devStores == <<DEV_NUMERIC, DEV_LEFT, DEV_RIGHT, HEARTBEAT>>
solVars == <<args, db, DEF_MAX_RANGE, bssid_groups, pcS, features, skipped,
             usedRanges, outFile>>
fitVars == <<ap_true, enu_obs, fitOut>>
lockVars == <<lockOwner, pcL>>
retryVars == <<srcUp, gpsSock, attempts, epoch, connLog>>
monVars == <<last_gps_time, last_channel_time, gps_warning, channel_warnings, pcMon, monIter, monLog>>
pubVars == <<fsNames, inodes, pcA, fhA, pubCalls, pubLost>>
posVars == <<posTable, posLog, posNow, posCalls>>
wdVars == <<wdNow, capNodes, wd_last_seen, last_reset, pcWd, wdTodo, wdAttempt, wdSkip>>
auxVars == <<lockVars, retryVars, monVars, pubVars, posVars, wdVars>>
devVars == <<devStores, capLast, snapVars, trackVars, solVars, fitVars, auxVars>>
gpsVars == <<gpsIn, fix, gpsFile, state, last_good_track, lastMsg>>
vars == <<cfgVars, now, portVars, readerVars, rstop, q, mainVars, created,
          capVars, devVars, gpsVars>>
\* Everything but the variables of auxVars.
baseVars == <<cfgVars, now, portVars, readerVars, rstop, q, mainVars, created,
             capVars, devStores, capLast, snapVars, trackVars, solVars, fitVars,
             gpsVars>>

\* --------------------------------------------------------------- queue
\* Two other queue disciplines, against which the queue properties are
\* tested: evict the oldest item when full, and no capacity at all.
put_drop_oldest(qq, rec) ==
  IF Len(qq) >= QueueMax THEN Append(Tail(qq), rec) ELSE Append(qq, rec)

put_unbounded(qq, rec) == Append(qq, rec)

\* A queue whose put inserts at the head (last in, first out).
put_front(qq, rec) ==
  IF Len(qq) >= QueueMax THEN qq ELSE <<rec>> \o qq

\* queue.Queue(maxsize).put(rec, block=False) / put_nowait: the queue after
\* the call; when it is full queue.Full is raised and the caller passes.
put_nowait(qq, rec) ==
  IF Len(qq) >= QueueMax THEN qq ELSE Append(qq, rec)

\* ------------------------------------------------------ position fix
GPSFix(ts, lat, lon, alt, spd, trk, hdop, vdop, pps) ==
  [ts_utc |-> ts, lat |-> lat, lon |-> lon, alt_m |-> alt, speed_mps |-> spd,
   track_deg |-> trk, hdop |-> hdop, vdop |-> vdop, pps_locked |-> pps]

use_pps == TRUE

\* An age gate that already rejects a fix whose age equals the maximum.
latest_fix_ge(f, t) ==
  IF f = None THEN None
  ELSE IF (t - Val(f).ts_utc) >= MaxFixAge THEN None
  ELSE f

\* GPSDReader.latest_fix / GPSReader.latest_fix at time t.  Times are in ms,
\* so (time.time() - fix.ts_utc) * 1000.0 is t - ts_utc.
latest_fix(f, t) ==
  IF f = None THEN None
  ELSE IF (t - Val(f).ts_utc) > MaxFixAge THEN None
  ELSE f

\* ------------------------------------------- aggregator.py: ProbeReader
\* An open whose failure takes every reader down with it.
ProbeReader_open_all(p) ==
  /\ prog = "aggregator" /\ pcM # "done"
  /\ pcR[p] = "init"
  /\ IF avail[p]
       THEN /\ pcR' = [pcR EXCEPT ![p] = "reading"]
            /\ cause' = cause
       ELSE /\ pcR' = [x \in Probes |-> "done"]
            /\ cause' = [cause EXCEPT ![p] = "open_failed"]
  /\ UNCHANGED <<cfgVars, now, portVars, readErr, buf, drops, rstop, q, mainVars, created,
                 capVars, devVars, gpsVars>>

\* ProbeReader.run up to the loop: open_serial returns None on failure.
ProbeReader_open(p) ==
  /\ prog = "aggregator" /\ pcM # "done"
  /\ pcR[p] = "init"
  /\ IF avail[p]
       THEN /\ pcR' = [pcR EXCEPT ![p] = "reading"]
            /\ cause' = cause
       ELSE /\ pcR' = [pcR EXCEPT ![p] = "done"]
            /\ cause' = [cause EXCEPT ![p] = "open_failed"]
  /\ UNCHANGED <<cfgVars, now, portVars, readErr, buf, drops, rstop, q, mainVars, created,
                 capVars, devVars, gpsVars>>

\* One read of the loop that returns a chunk holding k complete lines.
ProbeReader_read(p) ==
  /\ prog = "aggregator" /\ pcM # "done"
  /\ pcR[p] = "reading" /\ ~rstop[p] /\ avail[p]
  /\ stream[p] # <<>>
  /\ \E k \in 1..Len(stream[p]) :
       /\ buf' = [buf EXCEPT ![p] = SubSeq(stream[p], 1, k)]
       /\ stream' = [stream EXCEPT ![p] = SubSeq(stream[p], k + 1, Len(stream[p]))]
  /\ pcR' = [pcR EXCEPT ![p] = "lines"]
  /\ readErr' = [readErr EXCEPT ![p] = FALSE]
  /\ UNCHANGED <<cfgVars, now, avail, cause, drops, rstop, q, mainVars, created,
                 capVars, devVars, gpsVars>>

\* The read raises: the except clause prints, sleeps 0.1 s, and the loop
\* goes on with the same handle.
ProbeReader_read_error(p) ==
  /\ prog = "aggregator" /\ pcM # "done"
  /\ pcR[p] = "reading" /\ ~rstop[p] /\ ~avail[p]
  /\ readErr' = [readErr EXCEPT ![p] = TRUE]
  /\ UNCHANGED <<cfgVars, now, portVars, pcR, cause, buf, drops, rstop, q, mainVars, created,
                 capVars, devVars, gpsVars>>

\* One turn of the inner while: partition off a line, parse it, push it.
ProbeReader_line(p) ==
  /\ prog = "aggregator" /\ pcM # "done"
  /\ pcR[p] = "lines"
  /\ LET rec == parse_line(Head(buf[p]), p)
     IN  /\ q' = IF rec # None THEN put_nowait(q, Val(rec)) ELSE q
         /\ drops' = IF rec # None /\ Len(q) >= QueueMax
                     THEN [drops EXCEPT ![p] = @ + 1] ELSE drops
  /\ buf' = [buf EXCEPT ![p] = Tail(buf[p])]
  /\ pcR' = [pcR EXCEPT ![p] = IF Tail(buf[p]) = <<>> THEN "reading" ELSE "lines"]
  /\ UNCHANGED <<cfgVars, now, portVars, cause, readErr, rstop, mainVars, created,
                 capVars, devVars, gpsVars>>

\* The loop condition sees _stop_evt set: close the port and return.
ProbeReader_exit(p) ==
  /\ prog = "aggregator" /\ pcM # "done"
  /\ pcR[p] = "reading" /\ rstop[p]
  /\ pcR' = [pcR EXCEPT ![p] = "done"]
  /\ cause' = [cause EXCEPT ![p] = "stopped"]
  /\ UNCHANGED <<cfgVars, now, portVars, readErr, buf, drops, rstop, q, mainVars, created,
                 capVars, devVars, gpsVars>>

\* ------------------------------------------------ aggregator.py: main
batch_size == 200
RunChecks == 50

\* host/channel_map.yaml: the expected channel of each node it lists.
channels_map == [n \in {1} |-> 6]

\* The 16-column row main builds from a dequeued record and latest_fix().
Row(ts, rec, f) ==
  [ts_utc |-> ts, node_id |-> rec.node_id, channel |-> rec.channel,
   frequency_mhz |-> IF rec.frequency_mhz # 0 THEN rec.frequency_mhz
                     ELSE freq_from_channel(rec.channel),
   bssid |-> rec.bssid, ssid |-> rec.ssid, rssi_dbm |-> rec.rssi_dbm,
   beacon_interval_ms |-> rec.beacon_interval_ms,
   gps_lat |-> IF f # None THEN Val(f).lat ELSE None,
   gps_lon |-> IF f # None THEN Val(f).lon ELSE None,
   gps_alt_m |-> IF f # None THEN Val(f).alt_m ELSE None,
   gps_speed_mps |-> IF f # None THEN Val(f).speed_mps ELSE None,
   gps_track_deg |-> IF f # None THEN Val(f).track_deg ELSE None,
   gps_hdop |-> IF f # None THEN Val(f).hdop ELSE None,
   gps_vdop |-> IF f # None THEN Val(f).vdop ELSE None,
   pps_locked |-> IF f # None THEN Val(f).pps_locked ELSE use_pps]

Created(row, fixTs, t) == Some([row |-> row, fixTs |-> fixTs, at |-> t])

handle_sig ==
  /\ prog = "aggregator" /\ pcM = "run" /\ ~stopping
  /\ stopping' = TRUE
  /\ qAtStop' = q
  /\ UNCHANGED <<cfgVars, now, portVars, readerVars, rstop, q, pcM, batch, sink,
                 run_checks_remaining, chan_warnings, last_status, offered, created, capVars, devVars, gpsVars>>

\* A loop turn that keeps a batch whose write failed, to write it again.
MainIter_retry ==
  /\ prog = "aggregator" /\ pcM = "run" /\ ~stopping
  /\ LET rec == IF q = <<>> THEN None ELSE Some(Head(q))
         f == latest_fix(fix, now)
         batch1 == IF rec # None THEN Append(batch, Row(now, Val(rec), f)) ELSE batch
         flush == Len(batch1) >= batch_size \/ (rec = None /\ batch1 # <<>>)
     IN  /\ q' = IF q = <<>> THEN q ELSE Tail(q)
         /\ run_checks_remaining' =
              IF /\ rec # None
                 /\ Val(rec).node_id \in DOMAIN channels_map
                 /\ Val(rec).node_id \in DOMAIN run_checks_remaining
                 /\ run_checks_remaining[Val(rec).node_id] > 0
              THEN [run_checks_remaining EXCEPT ![Val(rec).node_id] = @ - 1]
              ELSE run_checks_remaining
         /\ chan_warnings' =
              IF /\ rec # None
                 /\ Val(rec).node_id \in DOMAIN channels_map
                 /\ Val(rec).node_id \in DOMAIN run_checks_remaining
                 /\ run_checks_remaining[Val(rec).node_id] > 0
                 /\ channels_map[Val(rec).node_id] # 0
                 /\ Val(rec).channel # 0
                 /\ Val(rec).channel # channels_map[Val(rec).node_id]
              THEN Append(chan_warnings,
                          [node |-> Val(rec).node_id, ch |-> Val(rec).channel,
                           expected_ch |-> channels_map[Val(rec).node_id]])
              ELSE chan_warnings
         /\ created' = IF rec # None
                       THEN Created(Row(now, Val(rec), f),
                                    IF fix = None THEN None ELSE Some(Val(fix).ts_utc), now)
                       ELSE created
         /\ IF flush
              THEN /\ offered' = Append(offered, batch1)
                   /\ \E ok \in BOOLEAN :
                        /\ sink' = IF ok THEN sink \o batch1 ELSE sink
                        /\ batch' = IF ok THEN <<>> ELSE batch1
              ELSE /\ batch' = batch1
                   /\ offered' = offered
                   /\ sink' = sink
  /\ last_status' = IF now - last_status >= StatusInterval THEN now ELSE last_status
  /\ UNCHANGED <<cfgVars, now, portVars, readerVars, rstop, stopping, pcM, qAtStop,
                 capVars, devVars, gpsVars>>

\* A loop turn that validates every Observation, however many came before.
MainIter_unlimited ==
  /\ prog = "aggregator" /\ pcM = "run" /\ ~stopping
  /\ LET rec == IF q = <<>> THEN None ELSE Some(Head(q))
         f == latest_fix(fix, now)
         batch1 == IF rec # None THEN Append(batch, Row(now, Val(rec), f)) ELSE batch
         flush == Len(batch1) >= batch_size \/ (rec = None /\ batch1 # <<>>)
     IN  /\ q' = IF q = <<>> THEN q ELSE Tail(q)
         /\ run_checks_remaining' =
              IF /\ rec # None
                 /\ Val(rec).node_id \in DOMAIN channels_map
                 /\ Val(rec).node_id \in DOMAIN run_checks_remaining
              THEN [run_checks_remaining EXCEPT ![Val(rec).node_id] = @ - 1]
              ELSE run_checks_remaining
         /\ chan_warnings' =
              IF /\ rec # None
                 /\ Val(rec).node_id \in DOMAIN channels_map
                 /\ Val(rec).node_id \in DOMAIN run_checks_remaining
                 /\ channels_map[Val(rec).node_id] # 0
                 /\ Val(rec).channel # 0
                 /\ Val(rec).channel # channels_map[Val(rec).node_id]
              THEN Append(chan_warnings,
                          [node |-> Val(rec).node_id, ch |-> Val(rec).channel,
                           expected_ch |-> channels_map[Val(rec).node_id]])
              ELSE chan_warnings
         /\ created' = IF rec # None
                       THEN Created(Row(now, Val(rec), f),
                                    IF fix = None THEN None ELSE Some(Val(fix).ts_utc), now)
                       ELSE created
         /\ IF flush
              THEN /\ batch' = <<>>
                   /\ offered' = Append(offered, batch1)
                   /\ \E ok \in BOOLEAN : sink' = IF ok THEN sink \o batch1 ELSE sink
              ELSE /\ batch' = batch1
                   /\ offered' = offered
                   /\ sink' = sink
  /\ last_status' = IF now - last_status >= StatusInterval THEN now ELSE last_status
  /\ UNCHANGED <<cfgVars, now, portVars, readerVars, rstop, stopping, pcM, qAtStop,
                 capVars, devVars, gpsVars>>

\* A loop turn that leaves an Observation on an unexpected channel out of
\* the batch.
MainIter_strict ==
  /\ prog = "aggregator" /\ pcM = "run" /\ ~stopping
  /\ LET rec == IF q = <<>> THEN None ELSE Some(Head(q))
         f == latest_fix(fix, now)
         mismatch == /\ rec # None
                     /\ Val(rec).node_id \in DOMAIN channels_map
                     /\ Val(rec).channel # channels_map[Val(rec).node_id]
         batch1 == IF rec # None /\ ~mismatch
                     THEN Append(batch, Row(now, Val(rec), f)) ELSE batch
         flush == Len(batch1) >= batch_size \/ (rec = None /\ batch1 # <<>>)
     IN  /\ q' = IF q = <<>> THEN q ELSE Tail(q)
         /\ run_checks_remaining' =
              IF /\ rec # None
                 /\ Val(rec).node_id \in DOMAIN channels_map
                 /\ Val(rec).node_id \in DOMAIN run_checks_remaining
                 /\ run_checks_remaining[Val(rec).node_id] > 0
              THEN [run_checks_remaining EXCEPT ![Val(rec).node_id] = @ - 1]
              ELSE run_checks_remaining
         /\ chan_warnings' =
              IF /\ rec # None
                 /\ Val(rec).node_id \in DOMAIN channels_map
                 /\ Val(rec).node_id \in DOMAIN run_checks_remaining
                 /\ run_checks_remaining[Val(rec).node_id] > 0
                 /\ channels_map[Val(rec).node_id] # 0
                 /\ Val(rec).channel # 0
                 /\ Val(rec).channel # channels_map[Val(rec).node_id]
              THEN Append(chan_warnings,
                          [node |-> Val(rec).node_id, ch |-> Val(rec).channel,
                           expected_ch |-> channels_map[Val(rec).node_id]])
              ELSE chan_warnings
         /\ created' = IF rec # None
                       THEN Created(Row(now, Val(rec), f),
                                    IF fix = None THEN None ELSE Some(Val(fix).ts_utc), now)
                       ELSE created
         /\ IF flush
              THEN /\ batch' = <<>>
                   /\ offered' = Append(offered, batch1)
                   /\ \E ok \in BOOLEAN : sink' = IF ok THEN sink \o batch1 ELSE sink
              ELSE /\ batch' = batch1
                   /\ offered' = offered
                   /\ sink' = sink
  /\ last_status' = IF now - last_status >= StatusInterval THEN now ELSE last_status
  /\ UNCHANGED <<cfgVars, now, portVars, readerVars, rstop, stopping, pcM, qAtStop,
                 capVars, devVars, gpsVars>>

\* A loop turn that writes the batch only once it holds more than batch_size
\* rows.
MainIter_late ==
  /\ prog = "aggregator" /\ pcM = "run" /\ ~stopping
  /\ LET rec == IF q = <<>> THEN None ELSE Some(Head(q))
         f == latest_fix(fix, now)
         batch1 == IF rec # None THEN Append(batch, Row(now, Val(rec), f)) ELSE batch
         flush == Len(batch1) > batch_size \/ (rec = None /\ batch1 # <<>>)
     IN  /\ q' = IF q = <<>> THEN q ELSE Tail(q)
         /\ run_checks_remaining' =
              IF /\ rec # None
                 /\ Val(rec).node_id \in DOMAIN channels_map
                 /\ Val(rec).node_id \in DOMAIN run_checks_remaining
                 /\ run_checks_remaining[Val(rec).node_id] > 0
              THEN [run_checks_remaining EXCEPT ![Val(rec).node_id] = @ - 1]
              ELSE run_checks_remaining
         /\ chan_warnings' =
              IF /\ rec # None
                 /\ Val(rec).node_id \in DOMAIN channels_map
                 /\ Val(rec).node_id \in DOMAIN run_checks_remaining
                 /\ run_checks_remaining[Val(rec).node_id] > 0
                 /\ channels_map[Val(rec).node_id] # 0
                 /\ Val(rec).channel # 0
                 /\ Val(rec).channel # channels_map[Val(rec).node_id]
              THEN Append(chan_warnings,
                          [node |-> Val(rec).node_id, ch |-> Val(rec).channel,
                           expected_ch |-> channels_map[Val(rec).node_id]])
              ELSE chan_warnings
         /\ created' = IF rec # None
                       THEN Created(Row(now, Val(rec), f),
                                    IF fix = None THEN None ELSE Some(Val(fix).ts_utc), now)
                       ELSE created
         /\ IF flush
              THEN /\ batch' = <<>>
                   /\ offered' = Append(offered, batch1)
                   /\ \E ok \in BOOLEAN : sink' = IF ok THEN sink \o batch1 ELSE sink
              ELSE /\ batch' = batch1
                   /\ offered' = offered
                   /\ sink' = sink
  /\ last_status' = IF now - last_status >= StatusInterval THEN now ELSE last_status
  /\ UNCHANGED <<cfgVars, now, portVars, readerVars, rstop, stopping, pcM, qAtStop,
                 capVars, devVars, gpsVars>>

\* One turn of main's while loop: pop (or time out), validate the channel,
\* build the row, flush the batch, print the status.
MainIter ==
  /\ prog = "aggregator" /\ pcM = "run" /\ ~stopping
  /\ LET rec == IF q = <<>> THEN None ELSE Some(Head(q))
         f == latest_fix(fix, now)
         batch1 == IF rec # None THEN Append(batch, Row(now, Val(rec), f)) ELSE batch
         flush == Len(batch1) >= batch_size \/ (rec = None /\ batch1 # <<>>)
     IN  /\ q' = IF q = <<>> THEN q ELSE Tail(q)
         /\ run_checks_remaining' =
              IF /\ rec # None
                 /\ Val(rec).node_id \in DOMAIN channels_map
                 /\ Val(rec).node_id \in DOMAIN run_checks_remaining
                 /\ run_checks_remaining[Val(rec).node_id] > 0
              THEN [run_checks_remaining EXCEPT ![Val(rec).node_id] = @ - 1]
              ELSE run_checks_remaining
         /\ chan_warnings' =
              IF /\ rec # None
                 /\ Val(rec).node_id \in DOMAIN channels_map
                 /\ Val(rec).node_id \in DOMAIN run_checks_remaining
                 /\ run_checks_remaining[Val(rec).node_id] > 0
                 /\ channels_map[Val(rec).node_id] # 0
                 /\ Val(rec).channel # 0
                 /\ Val(rec).channel # channels_map[Val(rec).node_id]
              THEN Append(chan_warnings,
                          [node |-> Val(rec).node_id, ch |-> Val(rec).channel,
                           expected_ch |-> channels_map[Val(rec).node_id]])
              ELSE chan_warnings
         /\ created' = IF rec # None
                       THEN Created(Row(now, Val(rec), f),
                                    IF fix = None THEN None ELSE Some(Val(fix).ts_utc), now)
                       ELSE created
         /\ IF flush
              THEN /\ batch' = <<>>
                   /\ offered' = Append(offered, batch1)
                   /\ \E ok \in BOOLEAN : sink' = IF ok THEN sink \o batch1 ELSE sink
              ELSE /\ batch' = batch1
                   /\ offered' = offered
                   /\ sink' = sink
  /\ last_status' = IF now - last_status >= StatusInterval THEN now ELSE last_status
  /\ UNCHANGED <<cfgVars, now, portVars, readerVars, rstop, stopping, pcM, qAtStop,
                 capVars, devVars, gpsVars>>

\* The finally block, first half: stop every thread, then join with a timeout.
MainStop ==
  /\ prog = "aggregator" /\ pcM = "run" /\ stopping
  /\ rstop' = [p \in Probes |-> TRUE]
  /\ pcM' = "joining"
  /\ UNCHANGED <<cfgVars, now, portVars, readerVars, q, stopping, batch, sink,
                 run_checks_remaining, chan_warnings, last_status, offered, qAtStop, created,
                 capVars, devVars, gpsVars>>

\* A shutdown sequence that closes the writer without the final flush.
MainFinish_noflush ==
  /\ prog = "aggregator" /\ pcM = "joining"
  /\ pcM' = "done"
  /\ UNCHANGED <<cfgVars, now, portVars, readerVars, rstop, q, stopping, batch, sink,
                 run_checks_remaining, chan_warnings, last_status, offered, qAtStop, created,
                 capVars, devVars, gpsVars>>

\* A shutdown sequence that never gets past the joins.
MainFinish_hang ==
  /\ prog = "aggregator" /\ pcM = "joining"
  /\ UNCHANGED vars

\* The finally block, second half: final flush, close the writer, return.
MainFinish ==
  /\ prog = "aggregator" /\ pcM = "joining"
  /\ IF batch # <<>>
       THEN /\ offered' = Append(offered, batch)
            /\ \E ok \in BOOLEAN : sink' = IF ok THEN sink \o batch ELSE sink
       ELSE /\ offered' = offered
            /\ sink' = sink
  /\ pcM' = "done"
  /\ UNCHANGED <<cfgVars, now, portVars, readerVars, rstop, q, stopping, batch, qAtStop,
                 run_checks_remaining, chan_warnings, last_status, created, capVars, devVars, gpsVars>>

\* ------------------------------------------ wifi_capture_service.py
\* detect_all_ports: the node_id of the port that capture thread p reads.
CapNode(p) == <<"1", "LEFT", "RIGHT", "4", "5">>[p]

DictGet(d, k) == IF k \in DOMAIN d THEN d[k] ELSE None

DictPut(d, k, v) == [x \in DOMAIN d \cup {k} |-> IF x = k THEN v ELSE d[x]]

\* str.upper() on the addresses the model uses.
Upper(b) ==
  CASE b = "aa:01" -> "AA:01"
    [] b = "aa:02" -> "AA:02"
    [] OTHER -> b

\* extract_channel: the first channel key whose value is an integer in 1..13.
extract_channel(l) ==
  IF l.ch # None /\ ~l.chNaN /\ Val(l.ch) # 0 /\ 1 <= Val(l.ch) /\ Val(l.ch) <= 13
  THEN l.ch ELSE None

freq_from_ch(ch) == 2407 + 5 * ch

\* capture, from the readline to the GPS load: the fields of the line, or
\* None when one of the `continue` filters drops it.
capture_fields(l, node_id) ==
  IF l.fmt # "json" THEN None
  ELSE IF l.bssid = None \/ Val(l.bssid) = "" \/ l.rssi = None \/ extract_channel(l) = None
    THEN None
  ELSE IF node_id \notin {"LEFT", "RIGHT"} /\ (l.ssid = None \/ Val(l.ssid) \in {"", "hidden"})
    THEN None
  ELSE IF l.ssid # None /\ Val(l.ssid) = "shentel" THEN None
  ELSE Some([bssid |-> Val(l.bssid), ssid |-> l.ssid, rssi |-> Val(l.rssi),
             ch |-> Val(extract_channel(l)),
             freq |-> IF Truthy(l.freq) THEN Val(l.freq)
                      ELSE freq_from_ch(Val(extract_channel(l)))])

\* load_gps: the dict of the state file, or None.
load_gps(file) == file

\* The db row capture builds: the GPS values are read from the loaded dict
\* under the keys lat, lon, alt, speed, track.
CapRow(ts, node_id, fl, gps) ==
  [ts_utc |-> ts, node_id |-> node_id, channel |-> fl.ch, frequency_mhz |-> fl.freq,
   bssid |-> Upper(fl.bssid), ssid |-> fl.ssid, rssi_dbm |-> fl.rssi,
   gps_lat |-> IF gps # None THEN DictGet(Val(gps), "lat") ELSE None,
   gps_lon |-> IF gps # None THEN DictGet(Val(gps), "lon") ELSE None,
   gps_alt_m |-> IF gps # None THEN DictGet(Val(gps), "alt") ELSE None,
   gps_speed_mps |-> IF gps # None THEN DictGet(Val(gps), "speed") ELSE None,
   gps_track_deg |-> IF gps # None THEN DictGet(Val(gps), "track") ELSE None]

DevEntry(fl, node_id, ts) ==
  [bssid |-> fl.bssid, ssid |-> OrElse(fl.ssid, ""), rssi |-> fl.rssi,
   node |-> node_id, ch |-> fl.ch, freq |-> fl.freq, last |-> ts]

capture_open(p) ==
  /\ prog = "capture" /\ pcM # "done"
  /\ pcR[p] = "init"
  /\ IF avail[p]
       THEN /\ pcR' = [pcR EXCEPT ![p] = "reading"]
            /\ cause' = cause
       ELSE /\ pcR' = [pcR EXCEPT ![p] = "done"]
            /\ cause' = [cause EXCEPT ![p] = "open_failed"]
  /\ capLast' = IF avail[p] THEN [capLast EXCEPT ![p] = now] ELSE capLast
  /\ UNCHANGED <<cfgVars, now, portVars, readErr, buf, drops, rstop, q, mainVars, created,
                 capVars, devStores, snapVars, trackVars, solVars, fitVars, auxVars, gpsVars>>

\* The entries of the store d that save_dev_state keeps at time t: seen at
\* most maxAge seconds ago and, for the directional stores, with a name.
FreshEntries(d, t, maxAge, named) ==
  {d[b] : b \in {x \in DOMAIN d : /\ t - d[x].last <= maxAge
                                   /\ (named => d[x].ssid # "")}}

\* list.sort(key=rssi, reverse=True): the orders of the entries S with the
\* strengths not increasing.
SortedByRssi(S) ==
  {sq \in [1..Cardinality(S) -> S] :
     /\ \A e \in S : \E i \in 1..Cardinality(S) : sq[i] = e
     /\ \A i, j \in 1..Cardinality(S) : i < j => sq[i].rssi >= sq[j].rssi}

\* save_dev_state: both snapshot files are rewritten from the three stores;
\* the stores themselves are only read.
save_dev_state(numeric, left, right, t) ==
  \E ns \in SortedByRssi(FreshEntries(numeric, t, 4, FALSE)) :
  \E ls \in SortedByRssi(FreshEntries(left, t, 15, TRUE)) :
  \E rs \in SortedByRssi(FreshEntries(right, t, 15, TRUE)) :
    /\ wifi_devices' = Some([devices |-> ns, ts |-> t])
    /\ wifi_directional' = Some([left |-> ls, right |-> rs, ts |-> t])

\* One turn of capture's while loop on a line that readline returned.
capture_line(p) ==
  /\ prog = "capture" /\ pcM # "done"
  /\ pcR[p] = "reading" /\ ~stop_flag /\ avail[p]
  /\ stream[p] # <<>>
  /\ stream' = [stream EXCEPT ![p] = Tail(stream[p])]
  /\ LET node_id == CapNode(p)
         fl == capture_fields(Head(stream[p]), node_id)
         gps == load_gps(gpsFile)
         row == CapRow(now, node_id, Val(fl), gps)
         e == DevEntry(Val(fl), node_id, now)
         left1 == IF node_id = "LEFT"
                    THEN DictPut(DEV_LEFT, Val(fl).bssid, e) ELSE DEV_LEFT
         right1 == IF node_id = "RIGHT"
                     THEN DictPut(DEV_RIGHT, Val(fl).bssid, e) ELSE DEV_RIGHT
         numeric1 == IF node_id \notin {"LEFT", "RIGHT"}
                       THEN DictPut(DEV_NUMERIC, Val(fl).bssid, e)
                       ELSE DEV_NUMERIC
     IN  IF fl = None
           THEN UNCHANGED <<db_queue, created, devStores, capLast, snapVars, drops>>
           ELSE /\ drops' = IF Len(db_queue) >= QueueMax
                            THEN [drops EXCEPT ![p] = @ + 1] ELSE drops
                /\ created' = Created(row,
                                      IF gps = None THEN None
                                      ELSE DictGet(Val(gps), "ts_utc"), now)
                /\ db_queue' = put_nowait(db_queue, row)
                /\ IF Len(db_queue) >= QueueMax
                     THEN UNCHANGED <<devStores, capLast, snapVars>>
                     ELSE /\ DEV_LEFT' = left1
                          /\ DEV_RIGHT' = right1
                          /\ DEV_NUMERIC' = numeric1
                          /\ HEARTBEAT' = DictPut(HEARTBEAT, node_id, now)
                          /\ IF now - capLast[p] >= 1
                               THEN /\ capLast' = [capLast EXCEPT ![p] = now]
                                    /\ save_dev_state(numeric1, left1, right1, now)
                               ELSE UNCHANGED <<capLast, snapVars>>
  /\ UNCHANGED <<cfgVars, now, avail, pcR, cause, readErr, buf, rstop, q, mainVars,
                 stop_flag, pcW, dbPending, dbRows, dbLast, trackVars, solVars, fitVars, auxVars,
                 gpsVars>>

\* readline raises: the bare except breaks out of the loop; the port is
\* closed and the thread returns.
capture_read_error(p) ==
  /\ prog = "capture" /\ pcM # "done"
  /\ pcR[p] = "reading" /\ ~stop_flag /\ ~avail[p]
  /\ pcR' = [pcR EXCEPT ![p] = "done"]
  /\ cause' = [cause EXCEPT ![p] = "read_failed"]
  /\ UNCHANGED <<cfgVars, now, portVars, readErr, buf, drops, rstop, q, mainVars, created,
                 capVars, devVars, gpsVars>>

capture_exit(p) ==
  /\ prog = "capture" /\ pcM # "done"
  /\ pcR[p] = "reading" /\ stop_flag
  /\ pcR' = [pcR EXCEPT ![p] = "done"]
  /\ cause' = [cause EXCEPT ![p] = "stopped"]
  /\ UNCHANGED <<cfgVars, now, portVars, readErr, buf, drops, rstop, q, mainVars, created,
                 capVars, devVars, gpsVars>>

\* One turn of db_writer's loop: get (or time out), execute the INSERT
\* (which may raise and is then printed), commit once a second.
db_writer_iter ==
  /\ prog = "capture" /\ pcM # "done"
  /\ pcW = "run" /\ (~stop_flag \/ db_queue # <<>>)
  /\ db_queue' = IF db_queue = <<>> THEN db_queue ELSE Tail(db_queue)
  /\ \E ok \in BOOLEAN :
       LET pend == IF db_queue # <<>> /\ ok THEN Append(dbPending, Head(db_queue))
                   ELSE dbPending
       IN  IF now - dbLast >= CommitInterval
             THEN /\ dbRows' = dbRows \o pend
                  /\ dbPending' = <<>>
                  /\ dbLast' = now
             ELSE /\ dbPending' = pend
                  /\ UNCHANGED <<dbRows, dbLast>>
  /\ UNCHANGED <<cfgVars, now, portVars, readerVars, rstop, q, mainVars, created,
                 stop_flag, pcW, devVars, gpsVars>>

\* db_writer leaves its loop: the last commit, then close.
db_writer_exit ==
  /\ prog = "capture" /\ pcM # "done"
  /\ pcW = "run" /\ stop_flag /\ db_queue = <<>>
  /\ dbRows' = dbRows \o dbPending
  /\ dbPending' = <<>>
  /\ pcW' = "done"
  /\ UNCHANGED <<cfgVars, now, portVars, readerVars, rstop, q, mainVars, created,
                 stop_flag, db_queue, dbLast, devVars, gpsVars>>

\* main: KeyboardInterrupt sets stop_flag, then main sleeps one second.
capture_interrupt ==
  /\ prog = "capture" /\ pcM = "run"
  /\ stop_flag' = TRUE
  /\ qAtStop' = db_queue
  /\ pcM' = "joining"
  /\ UNCHANGED <<cfgVars, now, portVars, readerVars, rstop, q, stopping, batch, sink,
                 run_checks_remaining, chan_warnings, last_status, offered, created,
                 db_queue, pcW, dbPending, dbRows, dbLast, devVars, gpsVars>>

\* main returns after the sleep: the process exits with its daemon threads.
capture_main_exit ==
  /\ prog = "capture" /\ pcM = "joining"
  /\ pcM' = "done"
  /\ UNCHANGED <<cfgVars, now, portVars, readerVars, rstop, q, stopping, batch, sink,
                 run_checks_remaining, chan_warnings, last_status, offered, qAtStop, created,
                 capVars, devVars, gpsVars>>

\* --------------------------------------------- position messages
\* A gpsd JSON object: a key the object does not hold is None.
GpsdObj(class) ==
  [class |-> class, mode |-> None, lat |-> None, lon |-> None, altMSL |-> None,
   alt |-> None, speed |-> None, track |-> None, course |-> None,
   hdop |-> None, vdop |-> None, satellites |-> <<>>,
   real_sec |-> None, real_nsec |-> None]

\* A parsed NMEA sentence (pynmea2): latitude and longitude are numbers,
\* 0 when the sentence gives none; the other fields are None when empty.
NmeaMsg(type) ==
  [type |-> type, status |-> "A", latitude |-> 0, longitude |-> 0,
   spd_over_grnd |-> None, true_course |-> None, altitude |-> None,
   horizontal_dil |-> None, hdop |-> None, vdop |-> None]

FixFields == {"lat", "lon", "alt_m", "speed_mps", "track_deg", "hdop", "vdop"}

FixField(f, name) == IF f = None THEN None ELSE Val(f)[name]

\* A merge that overwrites every field with what the message gave.
CarryOverwrite(v, prev, name) == v

\* `v if v is not None else prev.<name>`, done only when prev is not None.
Carry(v, prev, name) ==
  IF prev # None /\ v = None THEN Val(prev)[name] ELSE v

\* The locked section of _parse_obj and of _handle_line: the new _fix.
MergeFix(prev, ts, lat, lon, alt, spd, trk, hdop, vdop) ==
  Some(GPSFix(ts,
              Carry(lat, prev, "lat"), Carry(lon, prev, "lon"),
              Carry(alt, prev, "alt_m"), Carry(spd, prev, "speed_mps"),
              Carry(trk, prev, "track_deg"), Carry(hdop, prev, "hdop"),
              Carry(vdop, prev, "vdop"), use_pps))

\* GPSDReader._parse_obj: _fix after the object obj, received at ts.
GPSDReader_parse_obj(prev, obj, ts) ==
  IF obj.class = "TPV"
    THEN MergeFix(prev, ts, obj.lat, obj.lon, PyOr(obj.altMSL, obj.alt),
                  obj.speed, PyOr(obj.track, obj.course), None, None)
  ELSE IF obj.class = "SKY"
    THEN MergeFix(prev, ts, None, None, None, None, None, obj.hdop, obj.vdop)
  ELSE prev

KNOTS_TO_UMPS == 514444

\* GPSReader._handle_line: _fix after the sentence msg, received at ts.
\* speed_mps is held in micro-metres per second (knots * 0.514444).
GPSReader_handle_line(prev, msg, ts) ==
  IF msg.type = "INVALID" THEN prev
  ELSE IF msg.type = "RMC" /\ msg.status = "A"
    THEN MergeFix(prev, ts,
                  IF msg.latitude # 0 THEN Some(msg.latitude) ELSE None,
                  IF msg.longitude # 0 THEN Some(msg.longitude) ELSE None,
                  None,
                  IF msg.spd_over_grnd # None
                    THEN Some(Val(msg.spd_over_grnd) * KNOTS_TO_UMPS) ELSE None,
                  msg.true_course, None, None)
  ELSE IF msg.type = "GGA"
    THEN MergeFix(prev, ts,
                  IF msg.latitude # 0 THEN Some(msg.latitude) ELSE None,
                  IF msg.longitude # 0 THEN Some(msg.longitude) ELSE None,
                  msg.altitude, None, None, msg.horizontal_dil, None)
  ELSE IF msg.type = "GSA"
    THEN MergeFix(prev, ts, None, None, None, None, None, msg.hdop, msg.vdop)
  ELSE MergeFix(prev, ts, None, None, None, None, None, None, None)

\* ------------------------------------------------ gps_services.py
MIN_SPEED_MPS == 1
NS_PER_S == 1000000000

\* main's state dict before the first message.
InitState ==
  [ts_utc |-> None, pps_epoch |-> None, pps_ok |-> FALSE,
   lat |-> None, lon |-> None, alt |-> None,
   speed_mps |-> None, track_deg |-> None, track_deg_stable |-> None,
   mode |-> 0, fix |-> "NO FIX", sats |-> 0, prns |-> <<>>]

RECURSIVE UsedPrns(_)
UsedPrns(sats) ==
  IF sats = <<>> THEN <<>>
  ELSE (IF Head(sats).used THEN <<Head(sats).svid>> ELSE <<>>) \o UsedPrns(Tail(sats))

\* The PPS / SKY / TPV branches of main's loop body: the state dict and
\* last_good_track after msg, before ts_utc is stamped.
gps_services_branch(st, lgt, msg) ==
  IF msg.class = "PPS"
    THEN [st |-> IF msg.real_sec # None /\ msg.real_nsec # None
                   THEN [st EXCEPT !.pps_epoch =
                                      Some(Val(msg.real_sec) * NS_PER_S + Val(msg.real_nsec)),
                                   !.pps_ok = TRUE]
                   ELSE st,
          lgt |-> lgt]
  ELSE IF msg.class = "SKY"
    THEN [st |-> [st EXCEPT !.sats = Len(msg.satellites),
                            !.prns = UsedPrns(msg.satellites)],
          lgt |-> lgt]
  ELSE IF msg.class = "TPV"
    THEN IF OrElse(msg.mode, 0) >= 2
           THEN LET good == /\ msg.speed # None /\ msg.track # None
                            /\ Val(msg.speed) >= MIN_SPEED_MPS
                IN  [st |-> [st EXCEPT !.mode = OrElse(msg.mode, 0),
                                       !.lat = msg.lat, !.lon = msg.lon,
                                       !.alt = PyOr(msg.alt, msg.altMSL),
                                       !.speed_mps = msg.speed,
                                       !.track_deg = msg.track,
                                       !.fix = IF OrElse(msg.mode, 0) = 3
                                               THEN "3D FIX" ELSE "2D FIX",
                                       !.track_deg_stable =
                                          IF good THEN msg.track ELSE lgt],
                     lgt |-> IF good THEN msg.track ELSE lgt]
           ELSE [st |-> [st EXCEPT !.mode = OrElse(msg.mode, 0),
                                   !.fix = "NO FIX",
                                   !.speed_mps = None, !.track_deg = None,
                                   !.track_deg_stable = lgt],
                 lgt |-> lgt]
  ELSE [st |-> st, lgt |-> lgt]

\* ------------------------------------------------ position actions
\* GPSDReader.run hands the next decoded JSON object to _parse_obj.
GPSD_msg ==
  /\ prog = "aggregator" /\ gpsSource = "gpsd" /\ pcM # "done"
  /\ gpsIn # <<>>
  /\ fix' = GPSDReader_parse_obj(fix, Head(gpsIn), now)
  /\ lastMsg' = Some(Head(gpsIn))
  /\ gpsIn' = Tail(gpsIn)
  /\ UNCHANGED <<cfgVars, now, portVars, readerVars, rstop, q, mainVars, created,
                 capVars, devVars, gpsFile, state, last_good_track>>

\* GPSReader.run hands the next NMEA sentence to _handle_line.
NMEA_msg ==
  /\ prog = "aggregator" /\ gpsSource = "serial" /\ pcM # "done"
  /\ gpsIn # <<>>
  /\ fix' = GPSReader_handle_line(fix, Head(gpsIn), now)
  /\ lastMsg' = Some(Head(gpsIn))
  /\ gpsIn' = Tail(gpsIn)
  /\ UNCHANGED <<cfgVars, now, portVars, readerVars, rstop, q, mainVars, created,
                 capVars, devVars, gpsFile, state, last_good_track>>

\* gps_services.py main, one turn of `for line in gps.stdout`: the branch,
\* the ts_utc stamp, the atomic write of the state file.
gps_services_msg ==
  /\ gpsSource = "gpspipe"
  /\ gpsIn # <<>>
  /\ LET r == gps_services_branch(state, last_good_track, Head(gpsIn))
         st == [r.st EXCEPT !.ts_utc = Some(now)]
     IN  /\ state' = st
         /\ last_good_track' = r.lgt
         /\ gpsFile' = Some(st)
  /\ lastMsg' = Some(Head(gpsIn))
  /\ gpsIn' = Tail(gpsIn)
  /\ UNCHANGED <<cfgVars, now, portVars, readerVars, rstop, q, mainVars, created,
                 capVars, devVars, fix>>

\* The clock advances by one millisecond.
Tick ==
  /\ now < MaxTime
  /\ now' = now + 1
  /\ UNCHANGED <<cfgVars, portVars, readerVars, rstop, q, mainVars, created,
                 capVars, devVars, gpsVars>>

\* A probe's USB serial device disappears or comes back.
Unplug(p) ==
  /\ avail[p]
  /\ avail' = [avail EXCEPT ![p] = FALSE]
  /\ UNCHANGED <<cfgVars, now, stream, readerVars, rstop, q, mainVars, created,
                 capVars, devVars, gpsVars>>

Plug(p) ==
  /\ ~avail[p]
  /\ avail' = [avail EXCEPT ![p] = TRUE]
  /\ UNCHANGED <<cfgVars, now, stream, readerVars, rstop, q, mainVars, created,
                 capVars, devVars, gpsVars>>

\* ------------------------------------------------------ input sets
SeqsUpTo(S, n) == UNION {[1..k -> S] : k \in 0..n}

\* The probe line of the ingestion specifications.
LineA == Line("json", None, Some(6), FALSE, None, Some("aa:01"), Some("net"), Some(-50), None)
IngestLines == {LineA}

\* A full position report, the one message of the ingestion specification.
FullTpv ==
  [GpsdObj("TPV") EXCEPT !.mode = Some(3), !.lat = Some(1), !.lon = Some(1),
                         !.alt = Some(1), !.speed = Some(1), !.track = Some(1)]

\* Probe lines of the parsing specification: every shape, with each field
\* given or not.
ParseLines ==
  {Line(fmt, node, ch[1], ch[2], freq, bssid, ssid, rssi, bint) :
     fmt \in {"json", "csv", "junk"},
     node \in {None, Some(7)},
     ch \in {<<None, FALSE>>, <<Some(0), FALSE>>, <<Some(6), FALSE>>,
             <<Some(14), FALSE>>, <<Some(6), TRUE>>},
     freq \in {None, Some(0), Some(5180)},
     bssid \in {None, Some(""), Some("aa:01")},
     ssid \in {None, Some(""), Some("net"), Some("hidden"), Some("shentel")},
     rssi \in {None, Some(0), Some(-50)},
     bint \in {None, Some(0), Some(100)}}

\* Position messages of the fusion specification: each key alone with each
\* value, the empty objects, and a full report.
GpsVals == {0, 1}

GpsdMsgs ==
  {[GpsdObj("TPV") EXCEPT ![k] = Some(v)] :
     k \in {"lat", "lon", "altMSL", "alt", "speed", "track", "course"}, v \in GpsVals}
  \cup {[GpsdObj("SKY") EXCEPT ![k] = Some(v)] : k \in {"hdop", "vdop"}, v \in GpsVals}
  \cup {GpsdObj("TPV"), GpsdObj("SKY"), GpsdObj("PPS"), FullTpv}

NmeaMsgs ==
  {[NmeaMsg(t) EXCEPT !.latitude = v] : t \in {"RMC", "GGA"}, v \in GpsVals}
  \cup {[NmeaMsg(t) EXCEPT !.longitude = v] : t \in {"RMC", "GGA"}, v \in GpsVals}
  \cup {[NmeaMsg("RMC") EXCEPT ![k] = Some(v)] :
          k \in {"spd_over_grnd", "true_course"}, v \in GpsVals}
  \cup {[NmeaMsg("GGA") EXCEPT ![k] = Some(v)] :
          k \in {"altitude", "horizontal_dil"}, v \in GpsVals}
  \cup {[NmeaMsg("GSA") EXCEPT ![k] = Some(v)] : k \in {"hdop", "vdop"}, v \in GpsVals}
  \cup {[NmeaMsg("RMC") EXCEPT !.status = "V", !.latitude = 1, !.longitude = 1],
        NmeaMsg("GSA"), NmeaMsg("VTG"), NmeaMsg("INVALID")}

SvcMsgs ==
  {[GpsdObj("TPV") EXCEPT !.mode = Some(m), ![k] = Some(v)] :
     m \in {1, 3}, k \in {"lat", "lon", "altMSL", "alt", "speed", "track"}, v \in GpsVals}
  \cup {[FullTpv EXCEPT !.mode = Some(m)] : m \in {1, 2, 3}}
  \cup {GpsdObj("TPV"),
        [GpsdObj("SKY") EXCEPT !.satellites = <<[svid |-> 3, used |-> TRUE],
                                               [svid |-> 5, used |-> FALSE]>>],
        [GpsdObj("PPS") EXCEPT !.real_sec = Some(1), !.real_nsec = Some(5)],
        GpsdObj("PPS")}

\* ------------------------------------------------- live device tracker
STALE_SEC == 3
WINDOW_SEC == 2

denied == {"blocked"}

\* str.lower() on the network names the model uses.
Lower(x) == IF x = "Hidden" THEN "hidden" ELSE x

is_hidden(ssid) ==
  IF ssid = "" THEN TRUE
  ELSE Lower(ssid) \in {"hidden", "<hidden>", "<length: 0>", "null"}

\* str.upper() on the probe roles the model uses.
UpperNode(n) ==
  CASE n = "left" -> "LEFT"
    [] n = "right" -> "RIGHT"
    [] OTHER -> n

RECURSIVE SumSeq(_)
SumSeq(sq) == IF sq = <<>> THEN 0 ELSE Head(sq) + SumSeq(Tail(sq))

\* int(a / b) for b > 0: Python's int() drops the fraction, toward zero.
TruncDiv(a, b) == IF a >= 0 THEN a \div b ELSE 0 - ((0 - a) \div b)

\* hist[bssid].append(smp): a new address goes to the end of the dict.
HistAppend(h, b, smp) ==
  IF \E i \in 1..Len(h) : h[i].bssid = b
    THEN [i \in 1..Len(h) |->
            IF h[i].bssid = b THEN [h[i] EXCEPT !.dq = Append(@, smp)] ELSE h[i]]
    ELSE Append(h, [bssid |-> b, dq |-> <<smp>>])

\* The for loop over cap["observations"] at time t.
RECURSIVE Ingest(_, _, _)
Ingest(h, obs, t) ==
  IF obs = <<>> THEN h
  ELSE LET o == Head(obs)
           ts == OrElse(o.ts, t)
           node == UpperNode(o.node)
           skip == \/ o.bssid = "" \/ o.rssi = None
                   \/ is_hidden(o.ssid)
                   \/ o.ssid \in denied
           smp == [ts |-> ts, node |-> node, rssi |-> Val(o.rssi),
                   ch |-> o.channel, ssid |-> o.ssid]
       IN  Ingest(IF skip THEN h ELSE HistAppend(h, o.bssid, smp), Tail(obs), t)

\* while dq and (now - dq[0][0]) > WINDOW_SEC: dq.popleft()
RECURSIVE PruneWindow(_, _)
PruneWindow(dq, t) ==
  IF dq # <<>> /\ (t - Head(dq).ts) > WINDOW_SEC
    THEN PruneWindow(Tail(dq), t) ELSE dq

\* The addresses that stay in hist after the pruning pass at time t, each
\* with its pruned deque.
RECURSIVE PruneHist(_, _)
PruneHist(h, t) ==
  IF h = <<>> THEN <<>>
  ELSE LET dq == PruneWindow(Head(h).dq, t)
           rest == PruneHist(Tail(h), t)
       IN  IF dq = <<>> THEN rest
           ELSE IF (t - dq[Len(dq)].ts) > STALE_SEC THEN rest
           ELSE <<[bssid |-> Head(h).bssid, dq |-> dq]>> \o rest

RssiOf(dq, role) ==
  LET sel == SelectSeq(dq, LAMBDA x : role = "" \/ x.node = role)
  IN  [i \in 1..Len(sel) |-> sel[i].rssi]

\* The side decision of broker.py; sum(l)/len(l) > sum(r)/len(r) is compared
\* exactly, by cross multiplication.
broker_side(left, right) ==
  IF left # <<>> /\ right # <<>>
    THEN IF SumSeq(left) * Len(right) > SumSeq(right) * Len(left)
           THEN "LEFT" ELSE "RIGHT"
    ELSE IF left # <<>> THEN "LEFT"
    ELSE IF right # <<>> THEN "RIGHT"
    ELSE "OMNI"

\* The entry broker.py appends to devices for one address of hist.
BrokerDevice(e) ==
  LET dq == e.dq
      rssi_vals == RssiOf(dq, "")
  IN  [bssid |-> e.bssid,
       ssid |-> dq[Len(dq)].ssid,
       rssi |-> IF rssi_vals # <<>>
                  THEN Some(TruncDiv(SumSeq(rssi_vals), Len(rssi_vals)))
                  ELSE None,
       channel |-> dq[Len(dq)].ch,
       side |-> broker_side(RssiOf(dq, "LEFT"), RssiOf(dq, "RIGHT")),
       last_seen |-> dq[Len(dq)].ts]

\* One turn of broker.py's main loop: read the capture file, append its
\* observations, prune, evict and write the snapshot.
broker_iter ==
  /\ reads < MaxReads
  /\ reads' = reads + 1
  /\ LET cap == capFile
         h1 == IF cap # None /\ Val(cap).observations # None
                 THEN Ingest(hist, Val(Val(cap).observations), now)
                 ELSE hist
         h2 == PruneHist(h1, now)
     IN  /\ hist' = h2
         /\ devices' = Some([ts |-> now,
                             devices |-> [i \in 1..Len(h2) |-> BrokerDevice(h2[i])]])
  /\ UNCHANGED <<cfgVars, now, portVars, readerVars, rstop, q, mainVars, created,
                 capVars, devStores, capLast, snapVars, capFile, trilaterated,
                 solVars, fitVars, auxVars, gpsVars>>

\* ------------------------------------------------ trilateration service
SIDE_DIFF_THRESHOLD == 4
TRI_MIN_SPEED_MPS == 1

\* The side decision of trilateration_service.py for one address;
\* left_avg - right_avg is compared with the threshold exactly.
trilateration_side(gps_speed, left, right) ==
  IF gps_speed # None /\ Val(gps_speed) > TRI_MIN_SPEED_MPS
     /\ left # <<>> /\ right # <<>>
    THEN LET diffN == SumSeq(left) * Len(right) - SumSeq(right) * Len(left)
             den == Len(left) * Len(right)
         IN  IF diffN > SIDE_DIFF_THRESHOLD * den THEN "LEFT"
             ELSE IF diffN < (0 - SIDE_DIFF_THRESHOLD) * den THEN "RIGHT"
             ELSE "OMNI"
    ELSE "OMNI"

\* bssids.setdefault(b, []).append(o) over the observations, in file order.
RECURSIVE GroupByBssid(_, _)
GroupByBssid(g, obs) ==
  IF obs = <<>> THEN g
  ELSE LET o == Head(obs)
       IN  GroupByBssid(IF o.bssid = "" THEN g
                        ELSE HistAppend(g, o.bssid, o), Tail(obs))

\* The entry for one address, or None where the loop continues; of the
\* entry's fields the address, the side and the strengths used are kept.
TriDevice(gps_speed, e) ==
  LET withRssi == SelectSeq(e.dq, LAMBDA x : x.rssi # None)
      withChan == SelectSeq(withRssi, LAMBDA x : x.channel # None)
      vals(role) ==
        LET sel == SelectSeq(withRssi, LAMBDA x : UpperNode(x.node) = role)
        IN  [i \in 1..Len(sel) |-> Val(sel[i].rssi)]
  IN  IF Len(e.dq) < 3 \/ withRssi = <<>> \/ withChan = <<>> THEN None
      ELSE Some([bssid |-> e.bssid,
                 side |-> trilateration_side(gps_speed, vals("LEFT"), vals("RIGHT")),
                 left |-> vals("LEFT"), right |-> vals("RIGHT"),
                 gps_speed_mps |-> gps_speed])

\* One turn of trilateration_service.py's main loop on a readable file.
trilateration_iter ==
  /\ capFile # None
  /\ LET data == Val(capFile)
         g == GroupByBssid(<<>>, OrElse(data.observations, <<>>))
         devs == [i \in 1..Len(g) |-> TriDevice(data.gps_speed_mps, g[i])]
         kept == SelectSeq(devs, LAMBDA d : d # None)
     IN  trilaterated' = Some([i \in 1..Len(kept) |-> Val(kept[i])])
  /\ UNCHANGED <<cfgVars, now, portVars, readerVars, rstop, q, mainVars, created,
                 capVars, devStores, capLast, snapVars, capFile, reads, hist,
                 devices, solVars, fitVars, auxVars, gpsVars>>

\* The capture file is replaced by the content f (None: left unreadable).
WriteCapture(f) ==
  /\ capFile # f
  /\ capFile' = f
  /\ UNCHANGED <<cfgVars, now, portVars, readerVars, rstop, q, mainVars, created,
                 capVars, devStores, capLast, snapVars, reads, hist, devices,
                 trilaterated, solVars, fitVars, auxVars, gpsVars>>

\* The clock advances by one second.
Clock ==
  /\ now < MaxClock
  /\ now' = now + 1
  /\ UNCHANGED <<cfgVars, portVars, readerVars, rstop, q, mainVars, created,
                 capVars, devVars, gpsVars>>

\* ------------------------------------------------------------- locks
\* The lock-level view of the threads: each thread walks through the `with`
\* blocks of its loop body in program order.  A step enters a block (the
\* lock must be free) or leaves it; after leaving, the thread goes on to one
\* of the positions its branches allow.
Locks == {"DEV_LOCK", "HB_LOCK", "fix._lock", "writer.lock"}

Threads ==
  {<<"capture", p>> : p \in Probes} \cup {<<"db_writer", 0>>, <<"gps", 0>>, <<"main", 0>>}

Enter(L) == [op |-> "enter", lock |-> L, next |-> {}]
Leave(L, next) == [op |-> "leave", lock |-> L, next |-> next]

\* A capture loop that updates the heartbeat while it is still inside the
\* device lock.
capture_locks_nested ==
  << Enter("DEV_LOCK"), Enter("HB_LOCK"), Leave("HB_LOCK", {4}), Leave("DEV_LOCK", {1, 5}),
     Enter("DEV_LOCK"), Leave("DEV_LOCK", {7}),
     Enter("HB_LOCK"), Leave("HB_LOCK", {1}) >>

\* capture's loop body: store the device, then the heartbeat; once a
\* second save_dev_state and write_system_json.
capture_locks ==
  << Enter("DEV_LOCK"), Leave("DEV_LOCK", {3}),
     Enter("HB_LOCK"), Leave("HB_LOCK", {1, 5}),
     Enter("DEV_LOCK"), Leave("DEV_LOCK", {7}),
     Enter("HB_LOCK"), Leave("HB_LOCK", {1}) >>

\* db_writer's loop body: write_system_json after a commit.
db_writer_locks == << Enter("HB_LOCK"), Leave("HB_LOCK", {1}) >>

\* GPSDReader._parse_obj / GPSReader._handle_line: the fix is replaced
\* under the reader's lock.
gps_locks == << Enter("fix._lock"), Leave("fix._lock", {1}) >>

\* main's loop body: latest_fix for the row, write_batch when the batch
\* is due, latest_fix again for the status line.
main_locks ==
  << Enter("fix._lock"), Leave("fix._lock", {1, 3, 5}),
     Enter("writer.lock"), Leave("writer.lock", {1, 5}),
     Enter("fix._lock"), Leave("fix._lock", {1}) >>

LockOps(t) ==
  CASE t[1] = "capture" -> capture_locks
    [] t[1] = "db_writer" -> db_writer_locks
    [] t[1] = "gps" -> gps_locks
    [] OTHER -> main_locks

Holds(t) == {L \in Locks : lockOwner[L] = Some(t)}

lock_enter(t) ==
  /\ LockOps(t)[pcL[t]].op = "enter"
  /\ lockOwner[LockOps(t)[pcL[t]].lock] = None
  /\ lockOwner' = [lockOwner EXCEPT ![LockOps(t)[pcL[t]].lock] = Some(t)]
  /\ pcL' = [pcL EXCEPT ![t] = @ + 1]
  /\ UNCHANGED <<baseVars, retryVars, monVars, pubVars, posVars, wdVars>>

lock_leave(t) ==
  /\ LockOps(t)[pcL[t]].op = "leave"
  /\ lockOwner' = [lockOwner EXCEPT ![LockOps(t)[pcL[t]].lock] = None]
  /\ \E n \in LockOps(t)[pcL[t]].next : pcL' = [pcL EXCEPT ![t] = n]
  /\ UNCHANGED <<baseVars, retryVars, monVars, pubVars, posVars, wdVars>>

\* ------------------------------------- position source, connection
\* GPSDReader.run / GPSReader.run seen at the level of the connection: the
\* source goes away and comes back, the reader connects (gpsd) or opens the
\* port (serial) when it has no handle, and a read on a handle whose source
\* is gone fails.  MaxOutages and MaxAttempts bound the histories.
MaxOutages == 2
MaxAttempts == 4

src_down ==
  /\ srcUp /\ epoch < MaxOutages
  /\ srcUp' = FALSE
  /\ epoch' = epoch + 1
  /\ UNCHANGED <<baseVars, lockVars, monVars, pubVars, posVars, wdVars, gpsSock, attempts, connLog>>

src_up ==
  /\ ~srcUp
  /\ srcUp' = TRUE
  /\ UNCHANGED <<baseVars, lockVars, monVars, pubVars, posVars, wdVars, gpsSock, attempts, epoch, connLog>>

\* _connect, or open_serial in GPSReader's loop: the except branch prints
\* the failure and the loop sleeps and comes back.
gps_connect ==
  /\ ~gpsSock /\ attempts < MaxAttempts
  /\ attempts' = attempts + 1
  /\ gpsSock' = srcUp
  /\ connLog' = IF srcUp THEN connLog ELSE Append(connLog, epoch)
  /\ UNCHANGED <<baseVars, lockVars, monVars, pubVars, posVars, wdVars, srcUp, epoch>>

\* recv / read on a handle whose source is gone.  gpsd: an empty chunk
\* closes the socket silently, an exception prints and closes it.  serial:
\* the exception is printed and the handle is kept.
gps_read_fail ==
  /\ gpsSock /\ ~srcUp /\ attempts < MaxAttempts
  /\ attempts' = attempts + 1
  /\ IF gpsSource = "serial"
       THEN /\ gpsSock' = gpsSock
            /\ connLog' = Append(connLog, epoch)
       ELSE /\ gpsSock' = FALSE
            /\ \E raised \in BOOLEAN :
                 connLog' = IF raised THEN Append(connLog, epoch) ELSE connLog
  /\ UNCHANGED <<baseVars, lockVars, monVars, pubVars, posVars, wdVars, srcUp, epoch>>

\* ------------------------------------------ aggregator_monitored.py
\* Time is in seconds here.  last_channel_time is kept as the sequence of
\* its items in insertion order, which is the order .items() walks in.
GPS_TIMEOUT == 5
CHANNEL_TIMEOUT == 10
MaxMonClock == 13
NumChans == 2
MonChannels == 1..NumChans

\* A warn or resolve call; what is <<"gps", 0>> or <<"channel", ch>>.
Event(kind, what) == [kind |-> kind, what |-> what]

HasKey(d, k) == \E i \in 1..Len(d) : d[i].ch = k

\* d[k] = v on a dict: an existing key keeps its place, a new one goes last.
SetItem(d, k, v) ==
  IF HasKey(d, k)
    THEN [i \in 1..Len(d) |-> IF d[i].ch = k THEN [ch |-> k, last |-> v] ELSE d[i]]
  ELSE Append(d, [ch |-> k, last |-> v])

\* The GPS block of monitor's loop without the gps_warning test: it warns
\* on every turn while the source is stale.
mon_top_repeat ==
  /\ pcMon = "top"
  /\ IF now - last_gps_time > GPS_TIMEOUT
       THEN /\ monLog' = Append(monLog, Event("warn", <<"gps", 0>>))
            /\ gps_warning' = TRUE
       ELSE IF gps_warning
         THEN /\ monLog' = Append(monLog, Event("resolve", <<"gps", 0>>))
              /\ gps_warning' = FALSE
         ELSE UNCHANGED <<monLog, gps_warning>>
  /\ monIter' = Some([t |-> now, i |-> 1, used |-> Len(last_channel_time)])
  /\ pcMon' = "iter"
  /\ UNCHANGED <<baseVars, lockVars, retryVars, pubVars, posVars, wdVars, last_gps_time, last_channel_time,
                 channel_warnings>>

\* monitor, from the top of the while loop to the creation of the items
\* iterator: now is read, the GPS staleness block runs.
mon_top ==
  /\ pcMon = "top"
  /\ IF now - last_gps_time > GPS_TIMEOUT
       THEN IF ~gps_warning
              THEN /\ monLog' = Append(monLog, Event("warn", <<"gps", 0>>))
                   /\ gps_warning' = TRUE
              ELSE UNCHANGED <<monLog, gps_warning>>
       ELSE IF gps_warning
              THEN /\ monLog' = Append(monLog, Event("resolve", <<"gps", 0>>))
                   /\ gps_warning' = FALSE
              ELSE UNCHANGED <<monLog, gps_warning>>
  /\ monIter' = Some([t |-> now, i |-> 1, used |-> Len(last_channel_time)])
  /\ pcMon' = "iter"
  /\ UNCHANGED <<baseVars, lockVars, retryVars, pubVars, posVars, wdVars, last_gps_time, last_channel_time,
                 channel_warnings>>

\* One call of the iterator's __next__ and, when it yields, the loop body.
\* The iterator raises RuntimeError when the dict's size is not the size it
\* had when the iterator was made; monitor has no handler, so the exception
\* ends it.  When the items are used up the loop turn ends with the sleep.
mon_next ==
  /\ pcMon = "iter"
  /\ LET it == Val(monIter)
     IN  IF Len(last_channel_time) # it.used
           THEN /\ pcMon' = "dead"
                /\ monIter' = None
                /\ UNCHANGED <<monLog, channel_warnings>>
         ELSE IF it.i > Len(last_channel_time)
           THEN /\ pcMon' = "top"
                /\ monIter' = None
                /\ UNCHANGED <<monLog, channel_warnings>>
         ELSE LET ch == last_channel_time[it.i].ch
                  last_seen == last_channel_time[it.i].last
              IN  /\ pcMon' = pcMon
                  /\ monIter' = Some([it EXCEPT !.i = @ + 1])
                  /\ IF it.t - last_seen > CHANNEL_TIMEOUT
                       THEN IF ch \notin channel_warnings
                              THEN /\ monLog' = Append(monLog, Event("warn", <<"channel", ch>>))
                                   /\ channel_warnings' = channel_warnings \cup {ch}
                              ELSE UNCHANGED <<monLog, channel_warnings>>
                       ELSE IF ch \in channel_warnings
                              THEN /\ monLog' = Append(monLog, Event("resolve", <<"channel", ch>>))
                                   /\ channel_warnings' = channel_warnings \ {ch}
                              ELSE UNCHANGED <<monLog, channel_warnings>>
  /\ UNCHANGED <<baseVars, lockVars, retryVars, pubVars, posVars, wdVars, last_gps_time, last_channel_time,
                 gps_warning>>

\* A reader thread's parse_line on a line with an address and a strength,
\* on channel ch.  The threads are daemons: they end with monitor.
mon_parse_line(ch) ==
  /\ pcMon # "dead"
  /\ last_channel_time' = SetItem(last_channel_time, ch, now)
  /\ UNCHANGED <<baseVars, lockVars, retryVars, pubVars, posVars, wdVars, last_gps_time, gps_warning,
                 channel_warnings, pcMon, monIter, monLog>>

\* read_gps on a line that starts with "$".
mon_read_gps ==
  /\ pcMon # "dead"
  /\ last_gps_time' = now
  /\ UNCHANGED <<baseVars, lockVars, retryVars, pubVars, posVars, wdVars, last_channel_time, gps_warning,
                 channel_warnings, pcMon, monIter, monLog>>

\* monitor's time.sleep(1), seen at the grain of the timeouts: the monitor
\* is next scheduled after exactly GPS_TIMEOUT seconds or after one more.
mon_clock ==
  /\ pcMon = "top"
  /\ \E d \in {GPS_TIMEOUT, GPS_TIMEOUT + 1} :
       /\ now + d <= MaxMonClock
       /\ now' = now + d
  /\ UNCHANGED <<cfgVars, portVars, readerVars, rstop, q, mainVars, created,
                 capVars, devVars, gpsVars>>

\* ---------------------------------------------- atomic_write_json
\* The capture threads publish the same state file.  A document is written
\* as DocLen chunks; a chunk names the thread, the call and its place in the
\* document.  Each thread is followed through one call; MaxDocLen bounds
\* the chunks of a document.
MaxDocLen == 2

Chunk(t, call, part, of) == [by |-> t, call |-> call, part |-> part, of |-> of]

Doc(t, call, n) == [j \in 1..n |-> Chunk(t, call, j, n)]

\* write(2) of one chunk at offset off: bytes there are overwritten, bytes
\* after them stay, a gap before them reads as a hole.
WriteAt(content, off, c) ==
  [j \in 1..(IF off + 1 > Len(content) THEN off + 1 ELSE Len(content)) |->
     IF j = off + 1 THEN c
     ELSE IF j <= Len(content) THEN content[j]
     ELSE Chunk(0, 0, 0, 0)]

\* open(tmp, "w"): the temporary file is created, or truncated when it
\* exists; json.dump has the document to write.
aw_open(t) ==
  /\ pcA[t] = "idle" /\ pubCalls[t] = 0
  /\ \E n \in 1..MaxDocLen :
       LET ino == IF fsNames["tmp"] = None THEN Len(inodes) + 1 ELSE Val(fsNames["tmp"])
       IN  /\ inodes' = IF fsNames["tmp"] = None THEN Append(inodes, <<>>)
                        ELSE [inodes EXCEPT ![ino] = <<>>]
           /\ fsNames' = [fsNames EXCEPT !["tmp"] = Some(ino)]
           /\ fhA' = [fhA EXCEPT ![t] =
                        Some([ino |-> ino, off |-> 0,
                              todo |-> Doc(t, pubCalls[t] + 1, n)])]
  /\ pubCalls' = [pubCalls EXCEPT ![t] = @ + 1]
  /\ pcA' = [pcA EXCEPT ![t] = "writing"]
  /\ UNCHANGED <<baseVars, lockVars, retryVars, monVars, posVars, wdVars, pubLost>>

\* json.dump and the end of the with block: the next chunk reaches the
\* file; after the last one the file is closed.
aw_write(t) ==
  /\ pcA[t] = "writing"
  /\ LET h == Val(fhA[t])
     IN  /\ inodes' = [inodes EXCEPT ![h.ino] = WriteAt(@, h.off, Head(h.todo))]
         /\ fhA' = [fhA EXCEPT ![t] =
                      IF Tail(h.todo) = <<>> THEN None
                      ELSE Some([h EXCEPT !.off = @ + 1, !.todo = Tail(@)])]
         /\ pcA' = [pcA EXCEPT ![t] = IF Tail(h.todo) = <<>> THEN "closed" ELSE "writing"]
  /\ UNCHANGED <<baseVars, lockVars, retryVars, monVars, posVars, wdVars, fsNames, pubCalls, pubLost>>

\* os.replace(tmp, path): the name <path> gets the temporary file's inode;
\* with no temporary file it raises, and the bare except swallows that.
aw_replace(t) ==
  /\ pcA[t] = "closed"
  /\ IF fsNames["tmp"] = None
       THEN /\ pubLost' = pubLost \cup {<<t, pubCalls[t]>>}
            /\ fsNames' = fsNames
       ELSE /\ fsNames' = [fsNames EXCEPT !["path"] = fsNames["tmp"], !["tmp"] = None]
            /\ pubLost' = pubLost
  /\ pcA' = [pcA EXCEPT ![t] = "idle"]
  /\ UNCHANGED <<baseVars, lockVars, retryVars, monVars, posVars, wdVars, inodes, fhA, pubCalls>>

\* ---------------------------------------------- ap_position_writer.py
\* MaxWrites bounds the writes that commit.  Errors are in half metres, so
\* that an error below one metre exists; a score is the fraction
\* <<numerator, denominator>> with a positive denominator.
MaxWrites == 3

\* best_score: confidence / max(err_m, 1.0)
best_score(confidence, err_h) == <<2 * confidence, IF err_h > 2 THEN err_h ELSE 2>>

ScoreGt(s1, s2) == s1[1] * s2[2] > s2[1] * s1[2]

ScoreGe(s1, s2) == s1[1] * s2[2] >= s2[1] * s1[2]

Better_or_equal(new, old) == ScoreGe(new, old)

\* excluded.best_score > wifi_ap_position.best_score
Better(new, old) == ScoreGt(new, old)

\* The rows trilateration hands over: latitude, error, confidence and the
\* fields that describe the sighting.
PosLats == {45, 91}
PosErrs == {0, 1, 4}
PosConfs == {1, 3}
PosSeen == {[rssi |-> 0 - 50, channel |-> 1, side |-> "LEFT"],
            [rssi |-> 0 - 70, channel |-> 6, side |-> "RIGHT"]}

\* The parameters write_one binds.
UpsertParams(a, lat, err_h, conf, seen) ==
  [bssid |-> a, lat |-> lat, err_m |-> err_h, confidence |-> conf,
   best_score |-> best_score(conf, err_h),
   last_seen_utc |-> posNow, best_seen_utc |-> posNow,
   last_rssi |-> seen.rssi, last_channel |-> seen.channel, side |-> seen.side]

\* UPSERT_SQL: every right-hand side reads the row as it was.
Upsert(old, ex) ==
  IF old = None
    THEN Some([lat |-> ex.lat, err_m |-> ex.err_m, confidence |-> ex.confidence,
               best_score |-> ex.best_score, last_seen_utc |-> ex.last_seen_utc,
               best_seen_utc |-> ex.best_seen_utc, last_rssi |-> ex.last_rssi,
               last_channel |-> ex.last_channel, side |-> ex.side, updates |-> 1])
    ELSE LET row == Val(old)
             b == Better(ex.best_score, row.best_score)
         IN  Some([lat |-> IF b THEN ex.lat ELSE row.lat,
                   err_m |-> IF b THEN ex.err_m ELSE row.err_m,
                   confidence |-> IF b THEN ex.confidence ELSE row.confidence,
                   best_score |-> IF b THEN ex.best_score ELSE row.best_score,
                   best_seen_utc |-> IF b THEN ex.best_seen_utc ELSE row.best_seen_utc,
                   last_seen_utc |-> ex.last_seen_utc, last_rssi |-> ex.last_rssi,
                   last_channel |-> ex.last_channel, side |-> ex.side,
                   updates |-> row.updates + 1])

\* write_one: bad points are dropped; the UPSERT commits, or the database
\* stays locked through the five attempts and the row is given up.  The
\* poll that brings the next row is a second later.
write_one ==
  /\ posCalls < MaxWrites
  /\ \E a \in 1..NumAddrs, lat \in PosLats, err_h \in PosErrs, conf \in PosConfs,
        seen \in PosSeen, locked \in BOOLEAN :
       IF ~(0 - 90 <= lat /\ lat <= 90) \/ err_h <= 0 \/ locked
         THEN UNCHANGED <<posTable, posLog, posCalls, posNow>>
         ELSE LET ex == UpsertParams(a, lat, err_h, conf, seen)
              IN  /\ posTable' = [posTable EXCEPT ![a] = Upsert(@, ex)]
                  /\ posLog' = [posLog EXCEPT ![a] = Append(@, ex)]
                  /\ posCalls' = posCalls + 1
                  /\ posNow' = posNow + 1
  /\ UNCHANGED <<baseVars, lockVars, retryVars, monVars, pubVars, wdVars>>

\* ---------------------------------------------- esp_usb_watchdog.py
\* NumNodes bounds the nodes of the capture file, MaxWdClock the seconds
\* the watchdog is followed.
NumNodes == 1
MaxWdClock == 46
STALL_SECONDS == 10
CHECK_INTERVAL == 2
RESET_COOLDOWN == 30

\* time.time() when the watchdog starts: the epoch lies further back than
\* the cooldown.
WdStart == RESET_COOLDOWN

\* The nodes of a dict in the order of its keys.
RECURSIVE NodesFrom(_, _)
NodesFrom(d, n) ==
  IF n > NumNodes THEN <<>>
  ELSE IF d[n] = None THEN NodesFrom(d, n + 1)
  ELSE <<n>> \o NodesFrom(d, n + 1)

\* if usb_reset(dev): last_reset[node] = now()
reset_stamp_always(ok, old, t) == Some(t)

reset_stamp(ok, old, t) == IF ok THEN Some(t) ELSE old

\* A capture thread lists node n with the present time: when the service
\* starts, and by the next check when a reset has brought the node back.
wd_capture(n) ==
  /\ pcWd = "scan"
  /\ \/ capNodes[n] = None /\ wdNow = WdStart
     \/ /\ capNodes[n] # None /\ last_reset[n] # None
        /\ Val(capNodes[n]) < Val(last_reset[n])
        /\ wdNow <= Val(last_reset[n]) + CHECK_INTERVAL
  /\ capNodes' = [capNodes EXCEPT ![n] = Some(wdNow)]
  /\ UNCHANGED <<baseVars, lockVars, retryVars, monVars, pubVars, posVars,
                 wdNow, wd_last_seen, last_reset, pcWd, wdTodo, wdAttempt, wdSkip>>

\* scan_capture: last_seen is cleared and filled from the capture file; a
\* file that cannot be read leaves it empty.
scan_capture ==
  /\ pcWd = "scan"
  /\ \E readable \in BOOLEAN :
       wd_last_seen' = IF readable THEN capNodes ELSE [n \in 1..NumNodes |-> None]
  /\ wdTodo' = NodesFrom(wd_last_seen', 1)
  /\ pcWd' = "loop"
  /\ UNCHANGED <<baseVars, lockVars, retryVars, monVars, pubVars, posVars,
                 wdNow, capNodes, last_reset, wdAttempt, wdSkip>>

\* One turn of the for loop of monitor.  usb_reset sleeps a second between
\* unbind and bind; it fails before or after that.
wd_check ==
  /\ pcWd = "loop" /\ wdTodo # <<>>
  /\ wdTodo' = Tail(wdTodo)
  /\ LET node == Head(wdTodo)
         age == wdNow - Val(wd_last_seen[node])
         last_rst == OrElse(last_reset[node], 0)
     IN  IF age < STALL_SECONDS
           THEN /\ wdSkip' = [wdSkip EXCEPT ![node] = "fresh"]
                /\ UNCHANGED <<wdNow, last_reset, wdAttempt>>
         ELSE IF wdNow - last_rst < RESET_COOLDOWN
           THEN /\ wdSkip' = [wdSkip EXCEPT ![node] = "cooldown"]
                /\ UNCHANGED <<wdNow, last_reset, wdAttempt>>
         ELSE \E dev \in BOOLEAN :
                IF ~dev
                  THEN /\ wdSkip' = [wdSkip EXCEPT ![node] = "no esp device"]
                       /\ UNCHANGED <<wdNow, last_reset, wdAttempt>>
                  ELSE \E ok \in BOOLEAN, slept \in BOOLEAN :
                         /\ ok => slept
                         /\ wdNow' = IF slept THEN wdNow + 1 ELSE wdNow
                         /\ last_reset' = [last_reset EXCEPT ![node] = reset_stamp(ok, @, wdNow')]
                         /\ wdAttempt' = [wdAttempt EXCEPT ![node] =
                                            Some([at |-> wdNow, age |-> age, ok |-> ok,
                                                  since |-> last_reset[node]])]
                         /\ wdSkip' = [wdSkip EXCEPT ![node] = "none"]
  /\ UNCHANGED <<baseVars, lockVars, retryVars, monVars, pubVars, posVars,
                 capNodes, wd_last_seen, pcWd>>

\* write_state and time.sleep(CHECK_INTERVAL)
wd_sleep ==
  /\ pcWd = "loop" /\ wdTodo = <<>>
  /\ wdNow + CHECK_INTERVAL <= WdStart + MaxWdClock
  /\ wdNow' = wdNow + CHECK_INTERVAL
  /\ pcWd' = "scan"
  /\ UNCHANGED <<baseVars, lockVars, retryVars, monVars, pubVars, posVars,
                 capNodes, wd_last_seen, last_reset, wdTodo, wdAttempt, wdSkip>>

\* ------------------------------------------------------ specifications
EmptyDict == [x \in {} |-> None]

\* The state after construction, for the program pr with position source
\* src, probe streams st, port availability av and position messages g.
InitCore(pr, src, st, av, g) ==
  /\ prog = pr /\ gpsSource = src
  /\ now = 0
  /\ avail = av /\ stream = st
  /\ pcR = [p \in Probes |-> "init"]
  /\ cause = [p \in Probes |-> "none"]
  /\ readErr = [p \in Probes |-> FALSE]
  /\ buf = [p \in Probes |-> <<>>]
  /\ drops = [p \in Probes |-> 0]
  /\ rstop = [p \in Probes |-> FALSE]
  /\ q = <<>>
  /\ stopping = FALSE /\ pcM = "run"
  /\ batch = <<>> /\ sink = <<>> /\ offered = <<>> /\ qAtStop = <<>>
  /\ run_checks_remaining = [p \in Probes |-> RunChecks]
  /\ chan_warnings = <<>>
  /\ last_status = 0
  /\ created = None
  /\ stop_flag = FALSE /\ db_queue = <<>> /\ pcW = "run"
  /\ dbPending = <<>> /\ dbRows = <<>> /\ dbLast = 0
  /\ DEV_NUMERIC = EmptyDict /\ DEV_LEFT = EmptyDict /\ DEV_RIGHT = EmptyDict
  /\ HEARTBEAT = EmptyDict
  /\ capLast = [p \in Probes |-> 0]
  /\ wifi_devices = None /\ wifi_directional = None
  /\ hist = <<>> /\ devices = None /\ reads = 0 /\ trilaterated = None
  /\ DEF_MAX_RANGE = 2000 /\ bssid_groups = <<>> /\ pcS = "start"
  /\ features = <<>> /\ skipped = <<>> /\ usedRanges = <<>> /\ outFile = None
  /\ fitOut = None
  /\ lockOwner = [L \in Locks |-> None]
  /\ pcL = [t \in Threads |-> 1]
  /\ srcUp = TRUE /\ gpsSock = FALSE /\ attempts = 0 /\ epoch = 0 /\ connLog = <<>>
  /\ last_gps_time = 0 /\ last_channel_time = <<>> /\ gps_warning = FALSE
  /\ channel_warnings = {} /\ pcMon = "top" /\ monIter = None /\ monLog = <<>>
  /\ fsNames = [n \in {"path", "tmp"} |-> None] /\ inodes = <<>>
  /\ pcA = [t \in Probes |-> "idle"] /\ fhA = [t \in Probes |-> None]
  /\ pubCalls = [t \in Probes |-> 0] /\ pubLost = {}
  /\ posTable = [a \in 1..NumAddrs |-> None] /\ posLog = [a \in 1..NumAddrs |-> <<>>]
  /\ posNow = 0 /\ posCalls = 0
  /\ wdNow = WdStart /\ capNodes = [n \in 1..NumNodes |-> None]
  /\ wd_last_seen = [n \in 1..NumNodes |-> None] /\ last_reset = [n \in 1..NumNodes |-> None]
  /\ pcWd = "scan" /\ wdTodo = <<>>
  /\ wdAttempt = [n \in 1..NumNodes |-> None] /\ wdSkip = [n \in 1..NumNodes |-> "none"]
  /\ gpsIn = g
  /\ fix = None /\ gpsFile = None /\ state = InitState
  /\ last_good_track = None /\ lastMsg = None

\* trilaterate.py's command line when no option is given.
DefaultArgs ==
  [min_obs |-> 3, max_range |-> 2000, conf_scale |-> 100, quiet |-> FALSE]

InitBase(pr, src, st, av, g) ==
  /\ InitCore(pr, src, st, av, g) /\ args = DefaultArgs /\ db = <<>>
  /\ ap_true = <<0, 0, 0>> /\ enu_obs = <<>>

InitWith(pr, src, st, av, g) == InitBase(pr, src, st, av, g) /\ capFile = None

\* One step of reader thread p, in either program.
ReaderStep(p) ==
  \/ ProbeReader_open(p)
  \/ ProbeReader_read(p)
  \/ ProbeReader_read_error(p)
  \/ ProbeReader_line(p)
  \/ ProbeReader_exit(p)
  \/ capture_open(p)
  \/ capture_line(p)
  \/ capture_read_error(p)
  \/ capture_exit(p)

\* Ingestion: either program with its probe readers, its queue, its
\* consumer and its shutdown; ports come and go; no position source.
Init ==
  \E pr \in {"aggregator", "capture"} :
  \E st \in [Probes -> SeqsUpTo(IngestLines, MaxLines)] :
  \E av \in [Probes -> BOOLEAN] :
    InitWith(pr, IF pr = "aggregator" THEN "gpsd" ELSE "gpspipe", st, av, <<>>)

Next ==
  \/ \E p \in Probes : ReaderStep(p) \/ Unplug(p) \/ Plug(p)
  \/ handle_sig
  \/ MainIter
  \/ MainStop
  \/ MainFinish
  \/ db_writer_iter
  \/ db_writer_exit
  \/ capture_interrupt
  \/ capture_main_exit

Spec == Init /\ [][Next]_vars

\* Queue pressure: the first two probes send MaxLines lines and any further
\* probe one, ports stay up, the
\* readers of either program push while its consumer pops.
InitQueue ==
  \E pr \in {"aggregator", "capture"} :
    InitWith(pr, IF pr = "aggregator" THEN "gpsd" ELSE "gpspipe",
             [p \in Probes |-> [i \in 1..(IF p <= 2 THEN MaxLines ELSE 1) |-> LineA]],
             [p \in Probes |-> TRUE], <<>>)

NextQueue ==
  \/ \E p \in Probes :
       \/ ProbeReader_open(p)
       \/ ProbeReader_read(p)
       \/ ProbeReader_line(p)
       \/ capture_open(p)
       \/ capture_line(p)
  \/ MainIter
  \/ db_writer_iter

SpecQueue == InitQueue /\ [][NextQueue]_vars

\* Isolation: the aggregator with at most one line per probe, well formed
\* or not; ports may be absent at start and come and go.
JunkLine == Line("junk", None, None, FALSE, None, None, None, None, None)

InitIsolate ==
  \E st \in [Probes -> SeqsUpTo({LineA, JunkLine}, 1)] :
  \E av \in [Probes -> BOOLEAN] :
    InitWith("aggregator", "gpsd", st, av, <<>>)

NextIsolate ==
  \/ \E p \in Probes :
       \/ ProbeReader_open(p)
       \/ ProbeReader_read(p)
       \/ ProbeReader_read_error(p)
       \/ ProbeReader_line(p)
       \/ Unplug(p)
       \/ Plug(p)
  \/ MainIter

SpecIsolate == InitIsolate /\ [][NextIsolate]_vars

\* Ordering: probe 1 sends MaxLines numbered lines (its i-th line reports
\* strength -i), every other probe sends one, ports stay up, the aggregator
\* dispatches.
NumberedLine(i) ==
  Line("json", None, Some(6), FALSE, None, Some("aa:01"), Some("net"), Some(0 - i), None)

InitOrder ==
  InitWith("aggregator", "gpsd",
           [p \in Probes |-> [i \in 1..(IF p = 1 THEN MaxLines ELSE 1) |-> NumberedLine(i)]],
           [p \in Probes |-> TRUE], <<>>)

NextOrder ==
  \/ \E p \in Probes :
       \/ ProbeReader_open(p)
       \/ ProbeReader_read(p)
       \/ ProbeReader_line(p)
  \/ MainIter

SpecOrder == InitOrder /\ [][NextOrder]_vars

\* Shutdown: either program with at most one line per probe and its ports
\* up; the stop signal may arrive at any moment.  Every thread that can
\* take a step eventually takes one; the signal itself is not forced.
InitStop ==
  \E pr \in {"aggregator", "capture"} :
  \E st \in [Probes -> SeqsUpTo(IngestLines, 1)] :
    InitWith(pr, IF pr = "aggregator" THEN "gpsd" ELSE "gpspipe", st,
             [p \in Probes |-> TRUE], <<>>)

NextStop ==
  \/ \E p \in Probes :
       \/ ProbeReader_open(p)
       \/ ProbeReader_read(p)
       \/ ProbeReader_line(p)
       \/ ProbeReader_exit(p)
       \/ capture_open(p)
       \/ capture_line(p)
       \/ capture_exit(p)
  \/ handle_sig
  \/ MainIter
  \/ MainStop
  \/ MainFinish
  \/ db_writer_iter
  \/ db_writer_exit
  \/ capture_interrupt
  \/ capture_main_exit

FairStop ==
  /\ \A p \in Probes :
       /\ WF_vars(ProbeReader_open(p)) /\ WF_vars(ProbeReader_read(p))
       /\ WF_vars(ProbeReader_line(p)) /\ WF_vars(ProbeReader_exit(p))
       /\ WF_vars(capture_open(p)) /\ WF_vars(capture_line(p))
       /\ WF_vars(capture_exit(p))
  /\ WF_vars(MainStop) /\ WF_vars(MainFinish)
  /\ WF_vars(db_writer_iter) /\ WF_vars(db_writer_exit)
  /\ WF_vars(capture_main_exit)

SpecStop == InitStop /\ [][NextStop]_vars /\ FairStop

\* Fusion at dispatch: one line per probe at most, ports stay up, the
\* position source sends full reports, the clock runs.
InitFuse ==
  \E pr \in {"aggregator", "capture"} :
  \E st \in [Probes -> SeqsUpTo(IngestLines, 1)] :
  \E g \in SeqsUpTo({FullTpv}, MaxGpsMsgs) :
    InitWith(pr, IF pr = "aggregator" THEN "gpsd" ELSE "gpspipe", st,
             [p \in Probes |-> TRUE], g)

NextFuse ==
  \/ \E p \in Probes :
       \/ ProbeReader_open(p)
       \/ ProbeReader_read(p)
       \/ ProbeReader_line(p)
       \/ capture_open(p)
       \/ capture_line(p)
  \/ MainIter
  \/ db_writer_iter
  \/ GPSD_msg
  \/ gps_services_msg
  \/ Tick

SpecFuse == InitFuse /\ [][NextFuse]_vars

\* Parsing: one probe receives one line of any shape.
InitParse ==
  \E pr \in {"aggregator", "capture"} :
  \E p0 \in Probes :
  \E l \in ParseLines :
    InitWith(pr, IF pr = "aggregator" THEN "gpsd" ELSE "gpspipe",
             [p \in Probes |-> IF p = p0 THEN <<l>> ELSE <<>>],
             [p \in Probes |-> TRUE], <<>>)

NextParse ==
  \E p \in Probes :
    \/ ProbeReader_open(p)
    \/ ProbeReader_read(p)
    \/ ProbeReader_line(p)
    \/ capture_open(p)
    \/ capture_line(p)

SpecParse == InitParse /\ [][NextParse]_vars

\* Position fusion: one of the three position readers receives up to
\* MaxGpsMsgs messages while the clock runs; no probe sends anything.
MsgsOf(src) ==
  IF src = "gpsd" THEN GpsdMsgs ELSE IF src = "serial" THEN NmeaMsgs ELSE SvcMsgs

InitGps ==
  \E src \in {"gpsd", "serial", "gpspipe"} :
  \E g \in SeqsUpTo(MsgsOf(src), MaxGpsMsgs) :
    InitWith(IF src = "gpspipe" THEN "capture" ELSE "aggregator", src,
             [p \in Probes |-> <<>>], [p \in Probes |-> TRUE], g)

NextGps ==
  \/ GPSD_msg
  \/ NMEA_msg
  \/ gps_services_msg
  \/ Tick

SpecGps == InitGps /\ [][NextGps]_vars

\* ----------------------------------------------- tracker specifications
\* One observation of the capture file.
Obs(b, n, r) ==
  [ts |-> None, bssid |-> b, ssid |-> "net", node |-> n, rssi |-> Some(r),
   channel |-> Some(6)]

\* Observation lists: one role alone, both roles with the LEFT mean above,
\* below and equal to the RIGHT mean, a mean that is not an integer, and
\* observations the tracker skips or prunes at once.
ObsLists ==
  { <<Obs("aa:01", "1", -50), Obs("aa:01", "1", -50), Obs("aa:01", "1", -51)>>,
    <<Obs("aa:01", "LEFT", -50), Obs("aa:01", "RIGHT", -50), Obs("aa:01", "right", -50)>>,
    <<Obs("aa:01", "LEFT", -50), Obs("aa:01", "left", -50), Obs("aa:01", "LEFT", -51)>>,
    <<Obs("aa:02", "RIGHT", -70), Obs("aa:02", "RIGHT", -70), Obs("aa:02", "RIGHT", -70)>>,
    <<Obs("aa:01", "LEFT", -50), Obs("aa:01", "RIGHT", -60), Obs("aa:01", "RIGHT", -60)>>,
    <<Obs("aa:01", "LEFT", -60), Obs("aa:01", "RIGHT", -50), Obs("aa:01", "RIGHT", -52)>>,
    <<Obs("aa:01", "LEFT", -50), Obs("aa:01", "RIGHT", -52), Obs("aa:01", "RIGHT", -52)>>,
    <<[Obs("aa:02", "1", -40) EXCEPT !.ts = Some(0)],
      [Obs("aa:02", "1", -40) EXCEPT !.ssid = "Hidden"],
      [Obs("aa:02", "1", -40) EXCEPT !.rssi = None],
      [Obs("aa:02", "1", -40) EXCEPT !.ssid = "blocked"],
      [Obs("", "1", -40) EXCEPT !.channel = None]>> }

CapFile(speed, obs) == [gps_speed_mps |-> speed, observations |-> Some(obs)]

\* The capture files the tracker reads: the vehicle moving.
TrackerFiles ==
  {None, Some([gps_speed_mps |-> Some(2), observations |-> None])}
    \cup {Some(CapFile(Some(2), l)) : l \in ObsLists}

InitTracker ==
  /\ InitBase("capture", "gpspipe", [p \in Probes |-> <<>>],
              [p \in Probes |-> TRUE], <<>>)
  /\ capFile \in TrackerFiles

NextTracker ==
  \/ broker_iter
  \/ \E f \in TrackerFiles : WriteCapture(f)
  \/ Clock

SpecTracker == InitTracker /\ [][NextTracker]_vars

\* The capture files the trilateration service reads: no speed, standing
\* and moving.
TriFiles ==
  {None} \cup {Some(CapFile(v, l)) : v \in {None, Some(0), Some(2)}, l \in ObsLists}

InitTri ==
  /\ InitBase("capture", "gpspipe", [p \in Probes |-> <<>>],
              [p \in Probes |-> TRUE], <<>>)
  /\ capFile \in TriFiles

NextTri ==
  \/ trilateration_iter
  \/ \E f \in TriFiles : WriteCapture(f)

SpecTri == InitTri /\ [][NextTri]_vars

\* The probe line of the second address of the snapshot specification.
LineS == Line("json", None, Some(6), FALSE, None, Some("aa:02"), Some("net"), Some(-60), None)

\* Every capture thread has at most one line to read: the first probe
\* hears the first address, the others the second.
InitSnap ==
  \E st \in [Probes -> SeqsUpTo({LineA, LineS}, 1)] :
    /\ \A p \in Probes : st[p] \in {<<>>, IF p = 1 THEN <<LineA>> ELSE <<LineS>>}
    /\ InitWith("capture", "gpspipe", st, [p \in Probes |-> TRUE], <<>>)

NextSnap ==
  \/ \E p \in Probes :
       \/ capture_open(p)
       \/ capture_line(p)
  \/ Clock

SpecSnap == InitSnap /\ [][NextSnap]_vars

\* ------------------------------------------- scripts/trilaterate.py
\* Strengths are integer dBm and ranges integer metres.  The run uses
\* --p0 -40 (the default) and --n 2, so a strength that is 20 k dB below P0
\* has the range 10^k metres.
DEF_P0 == -40
n_exp == 2
MAX_RANGE_AT_DEF == 2000

RECURSIVE Pow10(_)
Pow10(k) == IF k <= 0 THEN 1 ELSE 10 * Pow10(k - 1)

\* rssi_to_range: d = 10^((p0 - rssi) / (10 n)), then min(max(d, 2), max_range).
\* A strength at or above p0 gives d <= 1, which max(d, 2) raises to 2.
rssi_to_range(rssi, p0, n, max_range) ==
  LET d == IF p0 - rssi <= 0 THEN 1 ELSE Pow10((p0 - rssi) \div (10 * n))
      lo == IF d > 2 THEN d ELSE 2
  IN  IF lo < max_range THEN lo ELSE max_range

\* round(1000 * exp(-k / 2)) for k = 0, 1, ...: 100 * exp(-x) in tenths of a
\* percent on the grid of half-integers x.
ExpTenths(k) ==
  IF k > 15 THEN 0
  ELSE <<1000, 607, 368, 223, 135, 82, 50, 30, 18, 11, 7, 4, 2, 2, 1, 1>>[k + 1]

\* A confidence that grows with the radius.
conf_from_cov_radius_rising(R95_m, scale_m) ==
  IF R95_m = None \/ Val(R95_m) <= 0 THEN 1000
  ELSE IF scale_m <= 0 THEN 0
  ELSE 1000 - ExpTenths((2 * Val(R95_m)) \div scale_m)

\* A confidence that gives a radius it cannot use no confidence at all.
conf_from_cov_radius_strict(R95_m, scale_m) ==
  IF R95_m = None \/ Val(R95_m) <= 0 THEN 0
  ELSE IF scale_m <= 0 THEN 0
  ELSE LET conf == ExpTenths((2 * Val(R95_m)) \div scale_m)
       IN  IF conf > 1000 THEN 1000 ELSE IF conf < 0 THEN 0 ELSE conf

\* conf_from_cov_radius, in tenths of a percent as round(., 1) keeps it.
\* R95_m is None for a NaN radius; a scale below 1e-6 is replaced by 1e-6,
\* which sends every positive radius to 0.
conf_from_cov_radius(R95_m, scale_m) ==
  IF R95_m = None \/ Val(R95_m) <= 0 THEN 1000
  ELSE IF scale_m <= 0 THEN 0
  ELSE LET conf == ExpTenths((2 * Val(R95_m)) \div scale_m)
       IN  IF conf > 1000 THEN 1000 ELSE IF conf < 0 THEN 0 ELSE conf

\* The rows of one address: the strengths in time order (None: rssi_dbm is
\* NULL and reads as NaN) and whether every ts_utc parses.
Group(b, rssis, tsOk) == [bssid |-> b, rssi |-> rssis, tsOk |-> tsOk]

\* load_data: the addresses with at least max(1, min_obs) rows, in the
\* order of the address.
load_data(rows, min_obs) ==
  SelectSeq(rows, LAMBDA g : Len(g.rssi) >= (IF min_obs > 1 THEN min_obs ELSE 1))

\* fit_bssid on the strengths of an address; success and R95 are what
\* least_squares and the covariance step come out with.  The result is
\* "raise" when a strength is NaN (least_squares rejects residuals that
\* are not finite).
fit_bssid(rssis, success, R95) ==
  IF Len(rssis) < 3
    THEN [kind |-> "return", x |-> FALSE, ok |-> FALSE,
          reason |-> "not_enough_observations", ranges |-> <<>>, cov_R95_m |-> None]
  ELSE IF \E i \in 1..Len(rssis) : rssis[i] = None
    THEN [kind |-> "raise", x |-> FALSE, ok |-> FALSE, reason |-> "ValueError",
          ranges |-> <<>>, cov_R95_m |-> None]
  ELSE [kind |-> "return", x |-> success, ok |-> success,
        reason |-> IF success THEN "converged" ELSE "max_nfev",
        ranges |-> [i \in 1..Len(rssis) |->
                      rssi_to_range(Val(rssis[i]), DEF_P0, n_exp, MAX_RANGE_AT_DEF)],
        cov_R95_m |-> R95]

\* A process_bssid that turns fewer than 3 observations into a coarse point
\* instead of skipping them.
process_bssid_coarse(g, conf_scale_m, success, R95) ==
  IF ~g.tsOk THEN [kind |-> "raise", ranges |-> <<>>]
  ELSE [kind |-> "feature", ranges |-> <<>>,
        feature |-> [bssid |-> g.bssid, num_obs |-> Len(g.rssi),
                     cov_R95_m |-> None, confidence_pct |-> 0,
                     notes |-> "coarse"]]

\* A process_bssid that does not look at the fit's ok flag.
process_bssid_unchecked(g, conf_scale_m, success, R95) ==
  IF ~g.tsOk THEN [kind |-> "raise", ranges |-> <<>>]
  ELSE IF Len(g.rssi) < 3 THEN [kind |-> "none", ranges |-> <<>>]
  ELSE LET info == fit_bssid(g.rssi, success, R95)
       IN  IF info.kind = "raise" THEN [kind |-> "raise", ranges |-> <<>>]
           ELSE [kind |-> "feature", ranges |-> info.ranges,
                 feature |-> [bssid |-> g.bssid, num_obs |-> Len(g.rssi),
                              cov_R95_m |-> info.cov_R95_m,
                              confidence_pct |->
                                conf_from_cov_radius(info.cov_R95_m, conf_scale_m),
                              notes |-> info.reason]]

\* process_bssid: "raise" when a timestamp does not parse or the fit
\* raises, "none" for fewer than 3 observations or a failed fit, else the
\* feature.
process_bssid(g, conf_scale_m, success, R95) ==
  IF ~g.tsOk THEN [kind |-> "raise", ranges |-> <<>>]
  ELSE IF Len(g.rssi) < 3 THEN [kind |-> "none", ranges |-> <<>>]
  ELSE LET info == fit_bssid(g.rssi, success, R95)
       IN  IF info.kind = "raise" THEN [kind |-> "raise", ranges |-> <<>>]
           ELSE IF ~info.ok \/ ~info.x THEN [kind |-> "none", ranges |-> info.ranges]
           ELSE [kind |-> "feature", ranges |-> info.ranges,
                 feature |-> [bssid |-> g.bssid, num_obs |-> Len(g.rssi),
                              cov_R95_m |-> info.cov_R95_m,
                              confidence_pct |->
                                conf_from_cov_radius(info.cov_R95_m, conf_scale_m),
                              notes |-> info.reason]]

\* The 95% radii the covariance step comes out with: None when it raised
\* and the radius was set to NaN.
R95Vals == {None, Some(0), Some(50), Some(100), Some(200), Some(1000)}

\* main up to the loop: the global is set from --max-range, the groups are
\* loaded; with no group the run ends at once.
solver_load ==
  /\ pcS = "start"
  /\ DEF_MAX_RANGE' = args.max_range
  /\ bssid_groups' = load_data(db, args.min_obs)
  /\ pcS' = IF load_data(db, args.min_obs) = <<>> THEN "done" ELSE "fitting"
  /\ UNCHANGED <<cfgVars, now, portVars, readerVars, rstop, q, mainVars, created,
                 capVars, devStores, capLast, snapVars, trackVars, fitVars, auxVars, args, db,
                 features, skipped, usedRanges, outFile, gpsVars>>

\* One turn of main's loop over the groups: the next address is processed;
\* an exception leaves main, and the run, at once.
solver_fit ==
  /\ pcS = "fitting" /\ bssid_groups # <<>>
  /\ \E success \in BOOLEAN : \E R95 \in R95Vals :
       LET g == Head(bssid_groups)
           feat == process_bssid(g, args.conf_scale, success, R95)
       IN  /\ bssid_groups' = Tail(bssid_groups)
           /\ usedRanges' = IF feat.ranges # <<>>
                              THEN Append(usedRanges, [bssid |-> g.bssid,
                                                       ranges |-> feat.ranges,
                                                       success |-> success])
                              ELSE usedRanges
           /\ pcS' = IF feat.kind = "raise" THEN "raised" ELSE pcS
           /\ features' = IF feat.kind = "feature"
                            THEN Append(features, feat.feature) ELSE features
           /\ skipped' = IF feat.kind = "none"
                           THEN Append(skipped, [bssid |-> g.bssid,
                                                 printed |-> ~args.quiet])
                           ELSE skipped
  /\ UNCHANGED <<cfgVars, now, portVars, readerVars, rstop, q, mainVars, created,
                 capVars, devStores, capLast, snapVars, trackVars, fitVars, auxVars, args, db,
                 DEF_MAX_RANGE, outFile, gpsVars>>

\* main after the loop: the collection is written unless it is empty.
solver_write ==
  /\ pcS = "fitting" /\ bssid_groups = <<>>
  /\ pcS' = "done"
  /\ outFile' = IF features = <<>> THEN None ELSE Some(features)
  /\ UNCHANGED <<cfgVars, now, portVars, readerVars, rstop, q, mainVars, created,
                 capVars, devStores, capLast, snapVars, trackVars, fitVars, auxVars, args, db,
                 DEF_MAX_RANGE, bssid_groups, features, skipped, usedRanges,
                 gpsVars>>

\* The addresses of the table, in their order.
Addr(i) == <<"aa:01", "aa:02", "aa:03", "aa:04">>[i]

\* The rows an address can have: two rows; three rows near, far and out of
\* range; rows with a timestamp that does not parse; rows with a NULL
\* strength.
RowKinds ==
  { [rssi |-> <<Some(-60), Some(-60)>>, tsOk |-> TRUE],
    [rssi |-> <<Some(-40), Some(-60), Some(-100)>>, tsOk |-> TRUE],
    [rssi |-> <<Some(-60), Some(-100), Some(-120)>>, tsOk |-> TRUE],
    [rssi |-> <<Some(-60), Some(-60)>>, tsOk |-> FALSE],
    [rssi |-> <<Some(-60), Some(-60), Some(-60)>>, tsOk |-> FALSE],
    [rssi |-> <<Some(-60), None, Some(-60)>>, tsOk |-> TRUE] }

SolverArgs ==
  [min_obs : {1, 3}, max_range : {500, 2000}, conf_scale : {50, 100},
   quiet : BOOLEAN]

InitSolver ==
  /\ InitCore("aggregator", "gpsd", [p \in Probes |-> <<>>],
              [p \in Probes |-> TRUE], <<>>)
  /\ capFile = None
  /\ ap_true = <<0, 0, 0>> /\ enu_obs = <<>>
  /\ args \in SolverArgs
  /\ \E kinds \in [1..NumAddrs -> RowKinds] :
       db = [i \in 1..NumAddrs |-> Group(Addr(i), kinds[i].rssi, kinds[i].tsOk)]

NextSolver ==
  \/ solver_load
  \/ solver_fit
  \/ solver_write

SpecSolver == InitSolver /\ [][NextSolver]_vars

\* --------------------------------- scripts/trilaterate.py, the fit
\* Positions are East/North/Up triples of integer metres inside a box of
\* GridXY metres to each side and GridZ metres up and down.  Distances are
\* compared through their squares, so no square root is taken.
GridXY == 10
GridZ == 16
Grid == {<<x, y, z>> : x \in -GridXY..GridXY, y \in -GridXY..GridXY, z \in -GridZ..GridZ}

Dist2(a, b) ==
  (a[1] - b[1]) * (a[1] - b[1]) + (a[2] - b[2]) * (a[2] - b[2])
    + (a[3] - b[3]) * (a[3] - b[3])

\* ALT_WEIGHT is 1/2: the residual scales dz by it.
ALT_WEIGHT_DEN == 2

\* The strength the path-loss model gives at a distance whose square is d2,
\* with P0 -40 and exponent 2: P0 - 10 * log10(d2).
PathLossRssi(d2) ==
  CASE d2 = 1 -> -40
    [] d2 = 100 -> -60
    [] d2 = 10000 -> -80

EnuObs(pt, rssi) == [x |-> pt[1], y |-> pt[2], z |-> pt[3], rssi |-> rssi]

\* residuals(x), one sample: d_adj - range is zero exactly when
\* dx^2 + dy^2 + (ALT_WEIGHT * dz)^2 equals range^2; the value here is that
\* difference of squares times ALT_WEIGHT_DEN^2.
residual2(x, o) ==
  LET dx == o.x - x[1]
      dy == o.y - x[2]
      dz == o.z - x[3]
      range == rssi_to_range(o.rssi, DEF_P0, n_exp, MAX_RANGE_AT_DEF)
  IN  ALT_WEIGHT_DEN * ALT_WEIGHT_DEN * (dx * dx + dy * dy) + dz * dz
        - ALT_WEIGHT_DEN * ALT_WEIGHT_DEN * range * range

\* The points of the box where every residual vanishes: the minimisers of
\* the cost least_squares works on, when there are any.
ZeroResidual(obs) ==
  {x \in Grid : \A i \in 1..Len(obs) : residual2(x, obs[i]) = 0}

\* fit_bssid on samples with positions.  least_squares ends on a point
\* where every residual vanishes, or does not succeed; at such a point the
\* residual variance is 0, so the covariance step gives the radius 0, or
\* raises on a singular matrix and gives NaN.
fit_solve ==
  /\ fitOut = None /\ Len(enu_obs) >= 3
  /\ LET sol == ZeroResidual(enu_obs)
     IN  \/ /\ sol # {}
            /\ \E x \in sol : \E R95 \in {None, Some(0)} :
                 fitOut' = Some([x |-> Some(x), ok |-> TRUE, cov_R95_m |-> R95])
         \/ fitOut' = Some([x |-> None, ok |-> FALSE, cov_R95_m |-> None])
  /\ UNCHANGED <<cfgVars, now, portVars, readerVars, rstop, q, mainVars, created,
                 capVars, devStores, capLast, snapVars, trackVars, solVars,
                 ap_true, enu_obs, auxVars, gpsVars>>

\* process_bssid after the fit: nothing for a fit that is not ok, else the
\* feature at the estimate with the confidence of its radius.
fit_feature ==
  /\ fitOut # None /\ pcS = "start"
  /\ pcS' = "done"
  /\ features' =
       IF ~Val(fitOut).ok \/ Val(fitOut).x = None THEN features
       ELSE Append(features,
                   [bssid |-> "aa:01", num_obs |-> Len(enu_obs),
                    enu |-> Val(Val(fitOut).x),
                    cov_R95_m |-> Val(fitOut).cov_R95_m,
                    confidence_pct |->
                      conf_from_cov_radius(Val(fitOut).cov_R95_m, args.conf_scale),
                    notes |-> "converged"])
  /\ UNCHANGED <<cfgVars, now, portVars, readerVars, rstop, q, mainVars, created,
                 capVars, devStores, capLast, snapVars, trackVars, fitVars, auxVars,
                 args, db, DEF_MAX_RANGE, bssid_groups, skipped, usedRanges,
                 outFile, gpsVars>>

\* Noise-free samples: the transmitter stands on the Up axis at one of
\* Heights, four samples are taken on the ground, each 10 m from it, and
\* their strengths are computed back from the path-loss model.
Heights == {0, 6, 8}

Ring(h) ==
  {pt \in Grid : pt[3] = 0 /\ Dist2(pt, <<0, 0, h>>) = 100}

RECURSIVE SeqOf(_)
SeqOf(S) ==
  IF S = {} THEN <<>>
  ELSE LET m == CHOOSE a \in S : \A b \in S :
                  a[1] < b[1] \/ (a[1] = b[1] /\ a[2] <= b[2])
       IN  <<m>> \o SeqOf(S \ {m})

InitFit ==
  /\ InitCore("aggregator", "gpsd", [p \in Probes |-> <<>>],
              [p \in Probes |-> TRUE], <<>>)
  /\ capFile = None /\ args = DefaultArgs /\ db = <<>>
  /\ \E h \in Heights :
       /\ ap_true = <<0, 0, h>>
       /\ \E S \in SUBSET Ring(h) :
            /\ Cardinality(S) = 4
            /\ enu_obs = [i \in 1..4 |->
                            EnuObs(SeqOf(S)[i], PathLossRssi(Dist2(SeqOf(S)[i], ap_true)))]

NextFit ==
  \/ fit_solve
  \/ fit_feature

SpecFit == InitFit /\ [][NextFit]_vars

\* Runtime channel validation: the first probe, whose expected channel is
\* 6, sends RunChecks + 1 lines, all on channel 6 or all on channel 11, or
\* at most one line while the second probe, which has no expected channel,
\* sends one on channel 11.  A read returns at most two lines, and main's
\* q.get times out only while the batch is empty or once the probes are
\* silent.
LineM == Line("json", None, Some(11), FALSE, None, Some("aa:01"), Some("net"), Some(-50), None)

InitChan ==
  \E l \in {LineA, LineM} : \E long \in BOOLEAN : \E n \in 0..1 :
    InitWith("aggregator", "gpsd",
             [p \in Probes |->
                IF p = 1 THEN [i \in 1..(IF long THEN RunChecks + 1 ELSE n) |-> l]
                ELSE IF p = 2 /\ ~long THEN <<LineM>>
                ELSE <<>>],
             [p \in Probes |-> TRUE], <<>>)

NextChan ==
  \/ \E p \in Probes :
       \/ ProbeReader_open(p)
       \/ ProbeReader_read(p) /\ Len(buf'[p]) <= 2
       \/ ProbeReader_line(p)
  \/ /\ \/ q # <<>>
        \/ batch = <<>>
        \/ \A p \in Probes : stream[p] = <<>> /\ buf[p] = <<>>
     /\ MainIter

SpecChan == InitChan /\ [][NextChan]_vars

\* Batching: the first probe sends batch_size + 1 lines and the others
\* none.  A reader fetches the next lines, two at most, once main has taken
\* the queue's content, and main's q.get times out on a non-empty batch
\* only among the first MaxLines rows or once the probes are silent.
RowsHandled == Len(batch) + SumSeq([b \in 1..Len(offered) |-> Len(offered[b])])

InitBatch ==
  InitWith("aggregator", "gpsd",
           [p \in Probes |-> IF p = 1 THEN [i \in 1..(batch_size + 1) |-> LineA] ELSE <<>>],
           [p \in Probes |-> TRUE], <<>>)

NextBatch ==
  \/ \E p \in Probes :
       \/ ProbeReader_open(p)
       \/ ProbeReader_read(p) /\ q = <<>> /\ Len(buf'[p]) <= 2
       \/ ProbeReader_line(p)
  \/ /\ \/ q # <<>>
        \/ batch = <<>>
        \/ RowsHandled <= MaxLines
        \/ \A p \in Probes : stream[p] = <<>> /\ buf[p] = <<>>
     /\ MainIter

SpecBatch == InitBatch /\ [][NextBatch]_vars

\* Locking: every thread of both programs runs.
InitLocks ==
  InitWith("aggregator", "gpsd", [p \in Probes |-> <<>>], [p \in Probes |-> TRUE], <<>>)

NextLocks ==
  \E t \in Threads :
    \/ lock_enter(t)
    \/ lock_leave(t)

SpecLocks == InitLocks /\ [][NextLocks]_vars

\* Connection retries: either position reader, no probe sends anything.
InitRetry ==
  \E src \in {"gpsd", "serial"} :
    InitWith("aggregator", src, [p \in Probes |-> <<>>], [p \in Probes |-> TRUE], <<>>)

NextRetry ==
  \/ src_down
  \/ src_up
  \/ gps_connect
  \/ gps_read_fail

SpecRetry == InitRetry /\ [][NextRetry]_vars

\* The monitored aggregator: readers, GPS reader and monitor.
InitMon ==
  InitWith("aggregator", "serial", [p \in Probes |-> <<>>], [p \in Probes |-> TRUE], <<>>)

NextMon ==
  \/ mon_top
  \/ mon_next
  \/ \E ch \in MonChannels : mon_parse_line(ch)
  \/ mon_read_gps
  \/ mon_clock

SpecMon == InitMon /\ [][NextMon]_vars

\* Publishing: every capture thread calls atomic_write_json on the same
\* path.
InitPublish ==
  InitWith("capture", "gpspipe", [p \in Probes |-> <<>>], [p \in Probes |-> TRUE], <<>>)

NextPublish ==
  \E t \in Probes :
    \/ aw_open(t)
    \/ aw_write(t)
    \/ aw_replace(t)

SpecPublish == InitPublish /\ [][NextPublish]_vars

\* The position writer on its own.
InitPos ==
  InitWith("capture", "gpspipe", [p \in Probes |-> <<>>], [p \in Probes |-> TRUE], <<>>)

NextPos == write_one

SpecPos == InitPos /\ [][NextPos]_vars

\* The USB watchdog on its own.
InitWd ==
  InitWith("capture", "gpspipe", [p \in Probes |-> <<>>], [p \in Probes |-> TRUE], <<>>)

NextWd ==
  \/ \E n \in 1..NumNodes : wd_capture(n)
  \/ scan_capture
  \/ wd_check
  \/ wd_sleep

SpecWd == InitWd /\ [][NextWd]_vars

\* ---------------------------------------------------------- properties
\* C1: when a reader pushes an Observation while the queue already holds
\* its capacity, the push returns at once, the Observation is discarded,
\* the queue is left as it was, and the reader goes on with its next line.
C1_DropOnFull ==
  [][\A p \in Probes :
       /\ (ProbeReader_line(p) /\ parse_line(Head(buf[p]), p) # None
             /\ Len(q) >= QueueMax)
            => /\ q' = q
               /\ buf'[p] = Tail(buf[p])
               /\ pcR'[p] = IF Tail(buf[p]) = <<>> THEN "reading" ELSE "lines"
               /\ drops'[p] = drops[p] + 1
       /\ (capture_line(p) /\ capture_fields(Head(stream[p]), CapNode(p)) # None
             /\ Len(db_queue) >= QueueMax)
            => /\ db_queue' = db_queue
               /\ stream'[p] = Tail(stream[p])
               /\ pcR'[p] = "reading"
               /\ drops'[p] = drops[p] + 1]_vars

\* A reader has met a full queue and is on to the next line of its chunk.
C1_Witness ==
  \E p \in Probes : drops[p] > 0 /\ pcR[p] = "lines" /\ Len(q) = QueueMax

\* C2: in every reachable state the fan-in queue holds at most its
\* configured capacity, whatever the readers and the consumer do.
C2_QueueBounded ==
  /\ Len(q) <= QueueMax
  /\ Len(db_queue) <= QueueMax

\* The queue is at capacity and a further push has been attempted.
C2_Witness ==
  \E p \in Probes : drops[p] > 0 /\ (Len(q) = QueueMax \/ Len(db_queue) = QueueMax)

\* C3: a probe line that lacks the address (bssid) or the signal strength
\* (rssi) yields no Observation: handling it pushes nothing to the queue.
LacksField(l) == l.bssid = None \/ l.rssi = None

C3_IncompleteLineNotPushed ==
  [][\A p \in Probes :
       /\ (ProbeReader_line(p) /\ LacksField(Head(buf[p]))) => q' = q
       /\ (capture_line(p) /\ LacksField(Head(stream[p]))) => db_queue' = db_queue]_vars

\* C4: a fused record built while the position fix is absent or older
\* than the maximum fix age carries no position value.
GeoKeys == {"gps_lat", "gps_lon", "gps_alt_m", "gps_speed_mps", "gps_track_deg",
            "gps_hdop", "gps_vdop"}

C4_StaleFixNeverAttached ==
  created # None =>
    ((Val(created).fixTs = None
        \/ Val(created).at - Val(Val(created).fixTs) > MaxFixAge)
      => \A k \in GeoKeys : DictGet(Val(created).row, k) = None)

\* C5: latest_fix() returns no fix exactly when none was recorded or its
\* age is strictly greater than the maximum; at an age equal to the
\* maximum, or smaller, it returns the current fix.
C5_LatestFixAgeGate ==
  /\ (latest_fix(fix, now) = None)
       <=> (fix = None \/ now - Val(fix).ts_utc > MaxFixAge)
  /\ (fix # None /\ now - Val(fix).ts_utc <= MaxFixAge) => latest_fix(fix, now) = fix

\* A fix whose age is exactly the maximum is still returned.
C5_Witness ==
  /\ fix # None
  /\ now - Val(fix).ts_utc = MaxFixAge
  /\ latest_fix(fix, now) = fix

\* C6: a field of the current position fix that holds a value holds a
\* value in every later state, whatever message is handled.
SvcFields == {"lat", "lon", "alt", "speed_mps", "track_deg"}

C6_NeverResetToNull ==
  [][/\ \A f \in FixFields : FixField(fix, f) # None => FixField(fix', f) # None
     /\ \A f \in SvcFields : state[f] # None => state'[f] # None]_vars

\* C7: handling one position message changes only the fields its class
\* carries: a quality message (SKY, GSA) leaves latitude, longitude,
\* altitude, speed and track as they were; a position/velocity message
\* (TPV, RMC) leaves the dilution figures as they were; a GGA sentence,
\* which carries position, altitude and horizontal dilution, leaves speed,
\* track and vertical dilution as they were.
PosFields == {"lat", "lon", "alt_m", "speed_mps", "track_deg"}
DopFields == {"hdop", "vdop"}

SameFix(fields) == \A f \in fields : FixField(fix', f) = FixField(fix, f)

C7_OnlyCarriedFieldsChange ==
  [][/\ (GPSD_msg /\ Head(gpsIn).class = "SKY") => SameFix(PosFields)
     /\ (GPSD_msg /\ Head(gpsIn).class = "TPV") => SameFix(DopFields)
     /\ (GPSD_msg /\ Head(gpsIn).class \notin {"TPV", "SKY"}) => SameFix(FixFields)
     /\ (NMEA_msg /\ Head(gpsIn).type = "GSA") => SameFix(PosFields)
     /\ (NMEA_msg /\ Head(gpsIn).type = "RMC") => SameFix(DopFields \cup {"alt_m"})
     /\ (NMEA_msg /\ Head(gpsIn).type = "GGA") => SameFix({"speed_mps", "track_deg", "vdop"})
     /\ (NMEA_msg /\ Head(gpsIn).type \notin {"GSA", "RMC", "GGA"}) => SameFix(FixFields)
     /\ (gps_services_msg /\ Head(gpsIn).class # "TPV")
          => \A f \in SvcFields : state'[f] = state[f]
     /\ (gps_services_msg /\ Head(gpsIn).class = "TPV")
          => \A f \in {"pps_epoch", "pps_ok", "sats", "prns"} : state'[f] = state[f]]_vars

\* A quality message has been merged into a fix that holds a position.
C7_Witness ==
  /\ gpsSource = "gpsd"
  /\ lastMsg # None /\ Val(lastMsg).class = "SKY" /\ Val(lastMsg).hdop # None
  /\ fix # None /\ Val(fix).lat # None /\ Val(fix).hdop = Val(lastMsg).hdop

\* C8: after a message carrying v1 for a field and then a message carrying
\* v2 for it, the field equals v2, zero values included.
GpsdCarried(obj, f) ==
  IF obj.class = "TPV" THEN
    CASE f = "lat" -> obj.lat
      [] f = "lon" -> obj.lon
      [] f = "alt_m" -> IF obj.altMSL # None THEN obj.altMSL ELSE obj.alt
      [] f = "speed_mps" -> obj.speed
      [] f = "track_deg" -> IF obj.track # None THEN obj.track ELSE obj.course
      [] OTHER -> None
  ELSE IF obj.class = "SKY" THEN
    CASE f = "hdop" -> obj.hdop
      [] f = "vdop" -> obj.vdop
      [] OTHER -> None
  ELSE None

C8_SecondValueWins ==
  [][(GPSD_msg /\ lastMsg # None)
       => \A f \in FixFields :
            (GpsdCarried(Val(lastMsg), f) # None /\ GpsdCarried(Head(gpsIn), f) # None)
              => FixField(fix', f) = GpsdCarried(Head(gpsIn), f)]_vars

\* C9: a reader whose source cannot be opened does not return on that
\* account.
C9_OpenFailureDoesNotEnd ==
  \A p \in Probes : ~(pcR[p] = "done" /\ cause[p] = "open_failed")

\* C10: a reader does not return on account of a read failure on its open
\* stream.
C10_ReadFailureDoesNotEnd ==
  \A p \in Probes : ~(pcR[p] = "done" /\ cause[p] = "read_failed")

\* C11: for distinct probes p and q, an open failure, a read error, a
\* malformed line or the end of p's reader changes nothing of q's reader
\* (its position, its buffer, its stream, its stop flag) and nothing of the
\* dispatch loop's control state; q's next step and the loop's next turn
\* stay enabled whatever has happened to p.
ReaderOwn(x) == <<pcR[x], cause[x], readErr[x], buf[x], stream[x], rstop[x], avail[x]>>

C11_StepIsolated ==
  \A p \in Probes :
    (ProbeReader_open(p) \/ ProbeReader_read(p) \/ ProbeReader_read_error(p)
       \/ ProbeReader_line(p) \/ Unplug(p))
      => /\ \A x \in Probes \ {p} : ReaderOwn(x)' = ReaderOwn(x)
         /\ pcM' = pcM /\ stopping' = stopping
         /\ batch' = batch /\ sink' = sink
         /\ Len(q') >= Len(q)

Delivered == sink \o batch

C12_PerReaderOrder ==
  \A i, j \in 1..Len(Delivered) :
    (i < j /\ Delivered[i].node_id = Delivered[j].node_id)
      => (0 - Delivered[i].rssi_dbm) < (0 - Delivered[j].rssi_dbm)

\* Two lines of one reader have been written to the sink while a line of
\* another reader was written between them.
C12_Witness ==
  \E i, j, k \in 1..Len(sink) :
    /\ i < k /\ k < j
    /\ sink[i].node_id = sink[j].node_id
    /\ sink[k].node_id # sink[i].node_id

C14_FinalFlushOnce ==
  [][/\ MainStop => (batch' = batch /\ offered' = offered /\ sink' = sink)
     /\ (MainFinish /\ batch # <<>>)
          => (offered' = Append(offered, batch) /\ sink' \in {sink, sink \o batch})
     /\ (MainFinish /\ batch = <<>>) => (offered' = offered /\ sink' = sink)
     /\ (pcM = "done") => (offered' = offered /\ sink' = sink)]_vars

\* Main has returned after a stop that found rows in the batch: the last
\* batch handed to the sink is that batch, and the sink holds its rows.
C14_Witness ==
  /\ prog = "aggregator" /\ stopping /\ pcM = "done"
  /\ batch # <<>>
  /\ offered # <<>> /\ offered[Len(offered)] = batch
  /\ Len(sink) >= Len(batch)
  /\ SubSeq(sink, Len(sink) - Len(batch) + 1, Len(sink)) = batch

\* C15: on a clean shutdown nothing accepted is lost: once the aggregator
\* has returned, every Observation that was in the queue when the stop
\* signal was raised has been handed to the sink.
C15_NoLossOnCleanStop ==
  (prog = "aggregator" /\ pcM = "done") =>
    \A i \in 1..Len(qAtStop) :
      \E b \in 1..Len(offered) : \E k \in 1..Len(offered[b]) :
        offered[b][k].node_id = qAtStop[i].node_id

\* C16: when the sink raises on a batch, the batch is discarded and never
\* handed to the sink again, and the loop goes on: every hand-over leaves
\* the batch empty and the loop running whether the write succeeded or
\* not, no row is ever handed over twice, and the next turn is enabled.
RowsOffered == [b \in 1..Len(offered) |-> {offered[b][k] : k \in 1..Len(offered[b])}]

Listed(entries) == {entries[i].bssid : i \in 1..Len(entries)}

\* C17: at each tracker snapshot, an address whose most recent sample is
\* older than the eviction bound is absent from the snapshot and is removed
\* from the per-address state: after a turn of the broker that writes the
\* snapshot, hist holds no such address; after save_dev_state, the three
\* stores hold no such address.
C17_StaleEvicted ==
  [][ /\ (devices' # devices) =>
           /\ \A i \in 1..Len(hist') :
                now' - hist'[i].dq[Len(hist'[i].dq)].ts <= STALE_SEC
           /\ Listed(Val(devices').devices) = {hist'[i].bssid : i \in 1..Len(hist')}
      /\ (wifi_devices' # wifi_devices) =>
           /\ \A b \in DOMAIN DEV_NUMERIC' : now' - DEV_NUMERIC'[b].last <= 4
           /\ \A b \in DOMAIN DEV_LEFT' : now' - DEV_LEFT'[b].last <= 15
           /\ \A b \in DOMAIN DEV_RIGHT' : now' - DEV_RIGHT'[b].last <= 15
           /\ Listed(Val(wifi_devices').devices) \subseteq DOMAIN DEV_NUMERIC'
    ]_vars

\* C18: for an address with three or more samples, all inside the window,
\* the smoothed strength of the snapshot is the arithmetic mean of the
\* samples' strengths: the reported number times the sample count is their
\* sum.
C18_SmoothedIsMean ==
  devices # None =>
    \A i \in 1..Len(hist) :
      LET dq == hist[i].dq
          d == Val(devices).devices[i]
      IN  (Len(dq) >= 3 /\ \A k \in 1..Len(dq) : Val(devices).ts - dq[k].ts <= WINDOW_SEC)
            => /\ d.bssid = hist[i].bssid
               /\ d.rssi # None
               /\ Val(d.rssi) * Len(dq) = SumSeq(RssiOf(dq, ""))

\* The side the rule of the device tracker gives for the LEFT strengths l
\* and the RIGHT strengths r, where it gives one: the role with the greater
\* mean when both have samples, OMNI when at most one has.
SideRule(sd, l, r) ==
  /\ (l # <<>> /\ r # <<>> /\ SumSeq(l) * Len(r) > SumSeq(r) * Len(l)) => sd = "LEFT"
  /\ (l # <<>> /\ r # <<>> /\ SumSeq(r) * Len(l) > SumSeq(l) * Len(r)) => sd = "RIGHT"
  /\ (l = <<>> \/ r = <<>>) => sd = "OMNI"

\* C19: in a snapshot an address's side is LEFT when both roles have
\* retained samples and the LEFT mean exceeds the RIGHT mean, RIGHT when the
\* RIGHT mean exceeds the LEFT mean, and OMNI when only one role or neither
\* has retained samples.
C19_SideByMeans ==
  /\ devices # None =>
       \A i \in 1..Len(hist) :
         SideRule(Val(devices).devices[i].side,
                  RssiOf(hist[i].dq, "LEFT"), RssiOf(hist[i].dq, "RIGHT"))
  /\ trilaterated # None =>
       \A i \in 1..Len(Val(trilaterated)) :
         SideRule(Val(trilaterated)[i].side,
                  Val(trilaterated)[i].left, Val(trilaterated)[i].right)

\* C20: when both the LEFT and the RIGHT role have retained samples for an
\* address and their mean strengths are exactly equal, the side is RIGHT.
C20_TieGoesRight ==
  /\ devices # None =>
       \A i \in 1..Len(hist) :
         LET l == RssiOf(hist[i].dq, "LEFT")
             r == RssiOf(hist[i].dq, "RIGHT")
         IN  (l # <<>> /\ r # <<>> /\ SumSeq(l) * Len(r) = SumSeq(r) * Len(l))
               => Val(devices).devices[i].side = "RIGHT"
  /\ trilaterated # None =>
       \A i \in 1..Len(Val(trilaterated)) :
         LET l == Val(trilaterated)[i].left
             r == Val(trilaterated)[i].right
         IN  (l # <<>> /\ r # <<>> /\ SumSeq(l) * Len(r) = SumSeq(r) * Len(l))
               => Val(trilaterated)[i].side = "RIGHT"

\* The strengths of a list of snapshot entries do not increase.
NonIncreasing(strengths) ==
  \A i \in 1..(Len(strengths) - 1) : strengths[i] >= strengths[i + 1]

\* C21: every published tracker snapshot lists its devices in
\* non-increasing order of smoothed strength, in the broker's snapshot and
\* in the lists save_dev_state writes.
C21_SnapshotSorted ==
  /\ devices # None =>
       NonIncreasing([i \in 1..Len(Val(devices).devices) |->
                        Val(Val(devices).devices[i].rssi)])
  /\ wifi_devices # None =>
       NonIncreasing([i \in 1..Len(Val(wifi_devices).devices) |->
                        Val(wifi_devices).devices[i].rssi])
  /\ wifi_directional # None =>
       /\ NonIncreasing([i \in 1..Len(Val(wifi_directional).left) |->
                           Val(wifi_directional).left[i].rssi])
       /\ NonIncreasing([i \in 1..Len(Val(wifi_directional).right) |->
                           Val(wifi_directional).right[i].rssi])

Fitted == {usedRanges[i].bssid : i \in {k \in 1..Len(usedRanges) : usedRanges[k].success}}

\* C23: the solver's output holds exactly one entry for each address whose
\* fit succeeded, none for an address whose fit did not converge or that
\* had too few samples, and no address twice.
C23_OneEntryPerFit ==
  /\ {features[i].bssid : i \in 1..Len(features)} = Fitted
  /\ \A i, j \in 1..Len(features) : features[i].bssid = features[j].bssid => i = j
  /\ \A i \in 1..Len(skipped) : skipped[i].bssid \notin Fitted
  /\ outFile # None => (pcS = "done" /\ Val(outFile) = features /\ features # <<>>)
  /\ (pcS = "done" /\ features # <<>>) => outFile = Some(features)

\* A finished run wrote one address while the fit of another did not
\* converge.
C23_Witness ==
  /\ pcS = "done" /\ outFile # None /\ Len(Val(outFile)) = 1
  /\ \E i \in 1..Len(usedRanges) : ~usedRanges[i].success

\* C24: a failure while one address is processed never aborts the run:
\* every other address is still processed and a result already obtained,
\* or still to be obtained, is emitted.  The run never ends on an exception
\* with addresses left unprocessed or with features left unwritten.
C24_FailureDoesNotAbort ==
  pcS = "raised" => (bssid_groups = <<>> /\ features = <<>>)

\* C25: every range the solver uses lies between 2 m and the max_range
\* configured for the run, so a --max-range below the default caps every
\* range of the initial guess and of the residuals.
C25_RangeWithinConfiguredMax ==
  \A i \in 1..Len(usedRanges) : \A k \in 1..Len(usedRanges[i].ranges) :
    /\ 2 <= usedRanges[i].ranges[k]
    /\ usedRanges[i].ranges[k] <= args.max_range

\* 100 * exp(-R95 / scale) clamped to [0, 100], in tenths of a percent, for
\* a radius and a positive scale of the model's grid.
ConfFormula(R95, scale) ==
  LET c == ExpTenths((2 * R95) \div scale)
  IN  IF c < 0 THEN 0 ELSE IF c > 1000 THEN 1000 ELSE c

RECURSIVE CountNode(_, _)
CountNode(rows, n) ==
  IF rows = <<>> THEN 0
  ELSE (IF Head(rows).node_id = n THEN 1 ELSE 0) + CountNode(Tail(rows), n)

RECURSIVE CountOffered(_, _)
CountOffered(bs, n) ==
  IF bs = <<>> THEN 0 ELSE CountNode(Head(bs), n) + CountOffered(Tail(bs), n)

Dequeued(n) == CountNode(batch, n) + CountOffered(offered, n)

WarningsFor(n) == SelectSeq(chan_warnings, LAMBDA w : w.node = n)

\* C27: when main dequeues an Observation of a probe that has an expected
\* channel, among that probe's first RunChecks Observations, and its nonzero
\* channel differs from the expected one, exactly one warning naming the
\* node, the reported and the expected channel is logged, the loop keeps
\* running, and the Observation's row, fused with the latest fix, is appended
\* to the batch.
C27_MismatchWarnsOnceAndContinues ==
  [][(/\ MainIter /\ q # <<>>
      /\ Head(q).node_id \in DOMAIN channels_map
      /\ Dequeued(Head(q).node_id) < RunChecks
      /\ Head(q).channel # 0
      /\ Head(q).channel # channels_map[Head(q).node_id])
     => LET row == Row(now, Head(q), latest_fix(fix, now))
        IN  /\ chan_warnings' =
                 Append(chan_warnings,
                        [node |-> Head(q).node_id, ch |-> Head(q).channel,
                         expected_ch |-> channels_map[Head(q).node_id]])
            /\ pcM' = "run" /\ stopping' = stopping
            /\ \/ batch' = Append(batch, row)
               \/ offered' = Append(offered, Append(batch, row))]_vars

C27_Witness ==
  /\ Len(WarningsFor(1)) = 2
  /\ CountNode(batch, 1) = 2
  /\ \A k \in 1..Len(batch) : batch[k].channel = 11
  /\ pcM = "run"

\* C28: every probe's remaining-check counter stays within 0..RunChecks, a
\* probe never has more warnings than RunChecks, and an Observation dequeued
\* after the probe's first RunChecks ones logs no warning.
C28_ChecksLimitedToFirstN ==
  /\ [](\A p \in DOMAIN run_checks_remaining :
          /\ run_checks_remaining[p] \in 0..RunChecks
          /\ Len(WarningsFor(p)) <= RunChecks
          /\ p \in DOMAIN channels_map
               => run_checks_remaining[p] =
                    (IF Dequeued(p) >= RunChecks THEN 0 ELSE RunChecks - Dequeued(p)))
  /\ [][(/\ MainIter /\ q # <<>>
         /\ Dequeued(Head(q).node_id) >= RunChecks)
        => chan_warnings' = chan_warnings]_vars

C28_Witness ==
  /\ Dequeued(1) = RunChecks + 1
  /\ Len(WarningsFor(1)) = RunChecks
  /\ run_checks_remaining[1] = 0

\* C29: a valid probe line, structured or delimited, that carries an
\* address, a signal strength and a channel in 1..14 but no frequency makes
\* every reader push exactly one Observation, and that Observation's
\* frequency is the table value of its channel.
ValidNoFreq(l) ==
  /\ l.fmt \in {"json", "csv"} /\ ~l.chNaN
  /\ l.ch # None /\ Val(l.ch) \in DOMAIN CHANNEL_TO_FREQ
  /\ l.freq = None
  /\ l.bssid # None /\ Val(l.bssid) # ""
  /\ l.rssi # None
  /\ l.ssid = Some("net")

C29_FrequencyFromChannelTable ==
  [][\A p \in Probes :
       /\ (ProbeReader_line(p) /\ ValidNoFreq(Head(buf[p])))
            => /\ Len(q') = Len(q) + 1
               /\ q'[Len(q')].channel = Val(Head(buf[p]).ch)
               /\ q'[Len(q')].frequency_mhz = CHANNEL_TO_FREQ[Val(Head(buf[p]).ch)]
       /\ (capture_line(p) /\ ValidNoFreq(Head(stream[p])))
            => /\ Len(db_queue') = Len(db_queue) + 1
               /\ db_queue'[Len(db_queue')].channel = Val(Head(stream[p]).ch)
               /\ db_queue'[Len(db_queue')].frequency_mhz
                    = CHANNEL_TO_FREQ[Val(Head(stream[p]).ch)]]_vars

\* C30: for four noise-free samples around a transmitter, with strengths
\* computed back from the path-loss model, the feature the solver emits lies
\* within 1 m of the transmitter and its confidence exceeds 90 percent.
C30_ExactFitOnNoiseFreeSamples ==
  \A k \in 1..Len(features) :
    /\ Dist2(features[k].enu, ap_true) <= 1
    /\ features[k].confidence_pct > 900

\* C40: a fit that succeeded is emitted whatever the covariance step came
\* out with, and a result whose radius is NaN (the covariance could not be
\* computed) or not positive carries the confidence 100.
Degenerate(R95) == R95 = None \/ Val(R95) <= 0

C40_DegenerateCovarianceEmittedAtFull ==
  /\ [][(/\ solver_fit
         /\ Len(usedRanges') > Len(usedRanges)
         /\ usedRanges'[Len(usedRanges')].success)
        => /\ Len(features') = Len(features) + 1
           /\ features'[Len(features')].bssid = Head(bssid_groups).bssid]_vars
  /\ [](\A k \in 1..Len(features) :
          Degenerate(features[k].cov_R95_m) => features[k].confidence_pct = 1000)

\* The written file holds a result with a NaN radius and one with the
\* radius 0, both at confidence 100.
C40_Witness ==
  /\ outFile # None
  /\ \E i, j \in 1..Len(Val(outFile)) :
       /\ Val(outFile)[i].cov_R95_m = None
       /\ Val(outFile)[j].cov_R95_m = Some(0)
       /\ Val(outFile)[i].confidence_pct = 1000
       /\ Val(outFile)[j].confidence_pct = 1000

\* C31: a turn of the dispatch loop hands the batch to the sink and empties
\* it exactly when, after the dequeued record was appended, the batch holds
\* at least batch_size rows, or the pop timed out and the batch is not
\* empty; any other turn leaves the sink alone and keeps the batch.  So the
\* batch never holds batch_size rows or more between two turns.
C31_FlushOnSizeOrIdle ==
  /\ [][MainIter =>
          LET b1 == IF q = <<>> THEN batch
                    ELSE Append(batch, Row(now, Head(q), latest_fix(fix, now)))
              due == Len(b1) >= batch_size \/ (q = <<>> /\ b1 # <<>>)
          IN  /\ due => /\ offered' = Append(offered, b1)
                        /\ batch' = <<>>
                        /\ sink' \in {sink, sink \o b1}
              /\ ~due => /\ offered' = offered
                         /\ sink' = sink
                         /\ batch' = b1]_vars
  /\ [][offered' # offered => MainIter]_vars
  /\ [](Len(batch) < batch_size)
  /\ [](\A b \in 1..Len(offered) : Len(offered[b]) \in 1..batch_size)

\* One batch was written because it was full, a later one because the
\* queue ran dry.
C31_Witness ==
  /\ \E b, c \in 1..Len(offered) :
       b < c /\ Len(offered[b]) = batch_size /\ Len(offered[c]) < batch_size
  /\ batch = <<>>

\* C32: no thread is ever inside two `with` blocks at once, and a thread
\* that waits for a lock waits for a thread that is about to leave it, so
\* no cycle of waiting threads exists.
Waiting(t) ==
  /\ LockOps(t)[pcL[t]].op = "enter"
  /\ lockOwner[LockOps(t)[pcL[t]].lock] # None

C32_NoNestedLocks ==
  /\ \A t \in Threads : Cardinality(Holds(t)) <= 1
  /\ \A t \in Threads :
       Holds(t) # {} => /\ LockOps(t)[pcL[t]].op = "leave"
                        /\ Holds(t) = {LockOps(t)[pcL[t]].lock}
  /\ \A t \in Threads :
       Waiting(t) => ~Waiting(Val(lockOwner[LockOps(t)[pcL[t]].lock]))

\* Every lock is held, each by another thread, while a capture thread waits
\* for the device lock.
C32_Witness ==
  /\ \A L \in Locks : lockOwner[L] # None
  /\ \E t \in Threads : t[1] = "capture" /\ Waiting(t)

\* C33: while the position source stays unavailable the failure is logged
\* once, at the transition, and not once per attempt: no two failure lines
\* belong to the same outage.
C33_FailureLoggedOncePerOutage ==
  \A i, j \in 1..Len(connLog) : connLog[i] = connLog[j] => i = j

\* C34: a message that carries no position (a quality message, a void or
\* non-position sentence) does not make an old position fresh: if
\* latest_fix() withheld the fix because of its age before such a message,
\* it does not return a fix with that carried-forward latitude or longitude
\* after it.
CarriesNoPosition(m) ==
  IF gpsSource = "gpsd" THEN m.class # "TPV"
  ELSE m.type \notin {"RMC", "GGA"} \/ (m.type = "RMC" /\ m.status # "A")

C34_OldPositionStaysStale ==
  [][(/\ GPSD_msg \/ NMEA_msg
      /\ CarriesNoPosition(Head(gpsIn))
      /\ fix # None
      /\ FixField(fix, "lat") # None \/ FixField(fix, "lon") # None
      /\ latest_fix(fix, now) = None)
     => \/ latest_fix(fix', now') = None
        \/ /\ FixField(latest_fix(fix', now'), "lat") = None
           /\ FixField(latest_fix(fix', now'), "lon") = None]_vars

\* C35: a reader thread that inserts the first sighting of a channel while
\* monitor walks the last-seen table never makes monitor fail: monitor is
\* never ended by an exception.
C35_MonitorSurvivesInsert ==
  pcMon # "dead"

\* C39: for the position source and for each channel the warnings and the
\* recoveries alternate, starting with a warning: no second 'no update'
\* warning before a 'resumed' message, no 'resumed' message without a
\* warning before it.  The flags say which of the two comes next.
MonSubjects == {<<"gps", 0>>} \cup {<<"channel", ch>> : ch \in MonChannels}

EventsOf(w) == SelectSeq(monLog, LAMBDA e : e.what = w)

C39_WarningsAlternate ==
  /\ \A w \in MonSubjects : \A i \in 1..Len(EventsOf(w)) :
       EventsOf(w)[i].kind = (IF i % 2 = 1 THEN "warn" ELSE "resolve")
  /\ gps_warning <=> Len(EventsOf(<<"gps", 0>>)) % 2 = 1
  /\ \A ch \in MonChannels :
       ch \in channel_warnings <=> Len(EventsOf(<<"channel", ch>>)) % 2 = 1

\* The position source and a channel have both gone stale and come back.
C39_Witness ==
  /\ Len(EventsOf(<<"gps", 0>>)) >= 2
  /\ \E ch \in MonChannels : Len(EventsOf(<<"channel", ch>>)) >= 2

\* C36: a reader of the published file sees, whenever the file exists, the
\* complete document of one call of atomic_write_json, and no call's
\* os.replace fails because another thread renamed the temporary file.
CompleteDoc(content) ==
  /\ content # <<>>
  /\ \A j \in 1..Len(content) :
       content[j] = Chunk(content[1].by, content[1].call, j, Len(content))

C36_PublishedFileComplete ==
  /\ fsNames["path"] # None => CompleteDoc(inodes[Val(fsNames["path"])])
  /\ pubLost = {}

\* C37: for every address, best_score never decreases; lat, lon, err_m,
\* confidence and best_seen_utc are those of the write that set the
\* current best_score, which only a strictly greater score replaces;
\* last_seen, last_rssi, last_channel and side are those of the most
\* recent write; updates is the number of accepted writes.
\* BestWrite(log): the first write of the log no other write beats.
BestWrite(log) ==
  CHOOSE k \in 1..Len(log) :
    /\ \A j \in 1..Len(log) : ~ScoreGt(log[j].best_score, log[k].best_score)
    /\ \A j \in 1..(k - 1) : ScoreGt(log[k].best_score, log[j].best_score)

RowMatchesLog(a) ==
  IF posLog[a] = <<>> THEN posTable[a] = None
  ELSE /\ posTable[a] # None
       /\ LET row == Val(posTable[a])
              last == posLog[a][Len(posLog[a])]
              best == posLog[a][BestWrite(posLog[a])]
          IN  /\ row.updates = Len(posLog[a])
              /\ row.last_seen_utc = last.last_seen_utc
              /\ row.last_rssi = last.last_rssi
              /\ row.last_channel = last.last_channel
              /\ row.side = last.side
              /\ row.best_score = best.best_score
              /\ row.lat = best.lat
              /\ row.err_m = best.err_m
              /\ row.confidence = best.confidence
              /\ row.best_seen_utc = best.best_seen_utc

C37_BestKeptLastFollows ==
  /\ [](\A a \in 1..NumAddrs : RowMatchesLog(a))
  /\ [][\A a \in 1..NumAddrs :
          posTable[a] # None =>
            /\ posTable'[a] # None
            /\ ScoreGe(Val(posTable'[a]).best_score, Val(posTable[a]).best_score)]_vars

\* An address with three writes: the second set the best score, the third
\* ties with it a second later and differs in the sighting.
C37_Witness ==
  \E a \in 1..NumAddrs :
    /\ Len(posLog[a]) = 3
    /\ BestWrite(posLog[a]) = 2
    /\ ~ScoreGt(posLog[a][2].best_score, posLog[a][3].best_score)
    /\ posLog[a][3].best_seen_utc > posLog[a][2].best_seen_utc
    /\ posLog[a][3].side # posLog[a][2].side
    /\ posLog[a][1].err_m # posLog[a][2].err_m

\* C38: the watchdog calls usb_reset for a node only when the node's
\* last-seen age is at least STALL_SECONDS and at least RESET_COOLDOWN
\* seconds after the node's last successful reset; a failed call leaves
\* last_reset as it was, so the cooldown never holds back the next check.
C38_ResetOnlyWhenStalledAndCooled ==
  \A n \in 1..NumNodes :
    wdAttempt[n] # None =>
      LET a == Val(wdAttempt[n])
      IN  /\ a.age >= STALL_SECONDS
          /\ a.since # None => a.at - Val(a.since) >= RESET_COOLDOWN
          /\ ~a.ok => /\ last_reset[n] = a.since
                      /\ wdSkip[n] # "cooldown"

\* A node was reset, came back, stalled again, and the second call of
\* usb_reset failed; the node has been visited again since.
C38_Witness ==
  \E n \in 1..NumNodes :
    /\ wdAttempt[n] # None
    /\ Val(wdAttempt[n]).since # None
    /\ ~Val(wdAttempt[n]).ok
    /\ wdNow > Val(wdAttempt[n]).at + 1
    /\ pcWd = "scan"
    /\ Val(capNodes[n]) > Val(Val(wdAttempt[n]).since)

=============================================================================
